---- MODULE Spec2Model ----
(***************************************************************************)
(* A model of the recording pipeline of EnhancedAudioApp (src/backend.py): *)
(* the session lifecycle (start_recording, stop_recording, the stop task   *)
(* and process_audio), the capture thread and its provisional/canonical    *)
(* file pair, the live-transcription, insight and coach loops, and the     *)
(* dual-device mixer of src/main_app.py.                                   *)
(*                                                                         *)
(* Every thread of the program is a process of the model; its position is  *)
(* a pc variable.  Thread objects and mkstemp paths are identified by the  *)
(* number of the session (the accepted start_recording call) that made     *)
(* them; the attributes of the app object are the shared variables.        *)
(***************************************************************************)
EXTENDS Integers, Sequences, FiniteSets, TLC

----------------------------------------------------------------------------
(* Bounds of the model *)

\* accepted start_recording calls per run
MaxSessions == 2
\* threads that call start_recording at the same time
MaxCallers == 2
\* blocks the capture thread writes to one .part file
MaxBlocks == 1
\* bytes of one block delivered by the input stream callback
BlockBytes == 8192

Sessions == 1..MaxSessions

----------------------------------------------------------------------------
(* Program constants *)

\* size of a RIFF/WAVE header written by the wave module
WavHeaderBytes == 44
\* process_audio rejects a canonical file smaller than this
MinFinalBytes == 4096
\* live_transcribe_loop skips a .part file smaller than this
MinLiveBytes == 8000
\* live_summary_loop and live_coach_loop wait for this many characters
MinTranscriptChars == 50

Modes == {"microphone", "system", "hybrid"}
DeviceNames == {"builtin", "blackhole", "hybrid"}
NotFound == "none"

----------------------------------------------------------------------------
VARIABLES
    \* attributes of EnhancedAudioApp
    is_recording,
    processing_audio,
    model_loading,
    whisper_model,
    recording_mode,
    microphone_device,
    blackhole_device,
    hybrid_device,
    coach_enabled,
    temp_audio_file,
    part_file,
    chat_history,
    \* the Timer thread running _preload_model
    preload_pc,
    \* threads, one instance per session
    session,
    rec_pc,
    trans_pc,
    sum_pc,
    coach_pc,
    \* the thread running _async_stop_and_process
    stop_pc,
    stop_threads,
    final_transcript,
    \* the file system: canonical, provisional and repaired snapshot files
    canon,
    partf,
    readf,
    \* what the callbacks and the callers have seen
    status,
    last_call,
    result_calls,
    \* the shared transcript and the session clock
    live_transcript_text,
    recording_start_time,
    now

appVars == <<is_recording, processing_audio, model_loading, whisper_model,
             recording_mode, microphone_device, blackhole_device,
             hybrid_device, coach_enabled, temp_audio_file, part_file,
             chat_history, preload_pc>>
threadVars == <<session, rec_pc, trans_pc, sum_pc, coach_pc, stop_pc,
                stop_threads, final_transcript>>
fileVars == <<canon, partf, readf>>
seenVars == <<status, last_call, result_calls>>
registry == <<microphone_device, blackhole_device, hybrid_device>>
loopPcs == <<trans_pc, sum_pc, coach_pc>>
stopVars == <<stop_pc, stop_threads, final_transcript>>

----------------------------------------------------------------------------
(* Files *)

Absent == [st |-> "absent", n |-> 0]
\* the zero-byte file tempfile.mkstemp leaves at the path it returns
EmptyFile == [st |-> "empty", n |-> 0]
\* a wave file open for writing that holds n blocks; its header is not final
OpenWav(n) == [st |-> "open", n |-> n]
\* a closed wave file of n blocks
ClosedWav(n) == [st |-> "closed", n |-> n]

Exists(f) == f.st # "absent"

\* os.path.getsize
FileSize(f) ==
    IF f.st \in {"absent", "empty"} THEN 0
    ELSE IF f.st = "open" /\ f.n = 0 THEN 0
    ELSE WavHeaderBytes + f.n * BlockBytes

----------------------------------------------------------------------------
(* Device Registry *)

\* One enumeration by sounddevice: ok is FALSE when the query raises, devs
\* are the devices listed, default is the OS default input (or none) and
\* first is the device at index 0.
Scans ==
    {sc \in [ok : BOOLEAN, devs : SUBSET DeviceNames,
              default : DeviceNames \cup {NotFound},
              first : DeviceNames \cup {NotFound}] :
        /\ sc.default \in sc.devs \cup {NotFound}
        /\ IF sc.devs = {} THEN sc.first = NotFound ELSE sc.first \in sc.devs}

FullScan == [ok |-> TRUE, devs |-> DeviceNames, default |-> "builtin",
             first |-> "builtin"]

\* detect_devices: descriptors of devices that are listed are overwritten,
\* the others are left as they were.
DetectMicrophone(sc, old) ==
    IF ~sc.ok THEN old
    ELSE IF sc.default # NotFound THEN sc.default
    ELSE IF old = NotFound /\ sc.devs # {} THEN sc.first
    ELSE old

DetectNamed(sc, name, old) ==
    IF sc.ok /\ name \in sc.devs THEN name ELSE old

detect_devices(sc) ==
    /\ microphone_device' = DetectMicrophone(sc, microphone_device)
    /\ blackhole_device' = DetectNamed(sc, "blackhole", blackhole_device)
    /\ hybrid_device' = DetectNamed(sc, "hybrid", hybrid_device)

----------------------------------------------------------------------------
(* The loops' data *)

VARIABLES
    \* configuration and registered callbacks
    default_llm,
    ffmpeg_path,
    transcript_callback,
    summary_callback,
    result_callback,
    \* the stored API keys: the keychain's entries and the config file's
    keychain,
    api_keys,
    \* the live-transcription loop
    temp_read_file,
    transcript_seen,
    \* the insight loop
    live_insights,
    summary_count,
    ollama_disabled,
    insight_calls,
    first_error,
    summary_seen,
    \* the meeting coach
    expected_duration,
    coach_alerts,
    agenda,
    \* record_dual_device of src/main_app.py: the two queues, the reader
    \* threads, the mixing loop and the frames it collects
    mic_queue,
    sys_queue,
    mic_reader,
    sys_reader,
    mic_reads,
    sys_reads,
    active,
    frames,
    mix_pc,
    \* the position of each thread that runs start_recording step by step
    start_pc,
    \* the sleeps of the three loops on the clock: each loop's position, the
    \* seconds left of its time.sleep call, and the seconds since stop
    \* cleared the recording flag
    nap_pc,
    nap_left,
    since_stop,
    \* _state_lock: the thread that holds it, and the position of a
    \* set_meeting_context call that runs step by step
    lock_owner,
    ctx_pc

configVars == <<default_llm, ffmpeg_path, transcript_callback,
                summary_callback, result_callback, keychain, api_keys>>
transVars == <<temp_read_file, transcript_seen>>
insightVars == <<live_insights, summary_count, ollama_disabled,
                 insight_calls, first_error, summary_seen>>
coachVars == <<expected_duration, coach_alerts, agenda>>
mixVars == <<mic_queue, sys_queue, mic_reader, sys_reader, mic_reads,
             sys_reads, active, frames, mix_pc>>
callVars == <<start_pc>>
sleepVars == <<nap_pc, nap_left, since_stop>>
lockVars == <<lock_owner, ctx_pc>>
extraVars == <<callVars, sleepVars, lockVars>>
otherVars == <<configVars, transVars, insightVars, coachVars, mixVars,
               extraVars>>

----------------------------------------------------------------------------
(* Model preload: the Timer thread started by __init__ *)

(* The configuration: _get_api_key and auto_detect_llm *)

\* the providers that need a key
KeyProviders == {"openai", "gemini", "anthropic"}

\* what the keychain holds for a provider (NoEntry: nothing) and what the
\* API_KEYS section of the config file holds
NoEntry == "(none)"
KeychainValues == {NoEntry, " ", "sk-1"}
ConfigValues == {"", "''", " sk-2 "}

\* str.strip() and the removal of both kinds of quotes
Strip(t) ==
    CASE t = " " -> ""
      [] t = " sk-2 " -> "sk-2"
      [] OTHER -> t
Unquote(t) == IF t = "''" THEN "" ELSE t

\* _get_api_key: the keychain's entry when it is truthy, else the config's
get_api_key(provider) ==
    IF keychain[provider] \notin {NoEntry, ""}
    THEN Strip(keychain[provider])
    ELSE Unquote(Strip(api_keys[provider]))

\* gemini before openai
GeminiFirst == <<"gemini", "openai", "anthropic", "ollama">>

llm_priority == <<"openai", "gemini", "anthropic", "ollama">>

\* the for loop of auto_detect_llm from position i
RECURSIVE FirstAvailable(_)
FirstAvailable(i) ==
    IF i > Len(llm_priority) THEN default_llm
    ELSE IF llm_priority[i] = "ollama" THEN "ollama"
    ELSE IF get_api_key(llm_priority[i]) # "" THEN llm_priority[i]
    ELSE FirstAvailable(i + 1)

auto_detect_llm ==
    /\ default_llm' = IF default_llm # "auto" THEN default_llm
                      ELSE FirstAvailable(1)
    /\ last_call' = "auto_detect_llm"
    /\ UNCHANGED <<appVars, threadVars, fileVars, status, result_calls,
                   live_transcript_text, recording_start_time, now,
                   ffmpeg_path, transcript_callback, summary_callback,
                   result_callback, keychain, api_keys, transVars,
                   insightVars, coachVars, mixVars, extraVars>>

----------------------------------------------------------------------------
\* _preload_model up to the call of whisper.load_model
PreloadBegin ==
    /\ preload_pc = "pending"
    /\ IF ~whisper_model /\ ~model_loading
       THEN /\ model_loading' = TRUE
            /\ status' = "Loading AI Model..."
            /\ preload_pc' = "loading"
       ELSE /\ preload_pc' = "done"
            /\ UNCHANGED <<model_loading, status>>
    /\ UNCHANGED <<is_recording, processing_audio, whisper_model,
                   recording_mode, registry, coach_enabled, temp_audio_file,
                   part_file, chat_history, threadVars, fileVars, last_call,
                   result_calls, live_transcript_text, recording_start_time,
                   now, otherVars>>

\* whisper.load_model returns (loaded) or raises; the finally clause clears
\* the loading flag and publishes Ready either way
PreloadEnd(loaded) ==
    /\ preload_pc = "loading"
    /\ whisper_model' = loaded
    /\ model_loading' = FALSE
    /\ status' = "Ready"
    /\ preload_pc' = "done"
    /\ UNCHANGED <<is_recording, processing_audio, recording_mode, registry,
                   coach_enabled, temp_audio_file, part_file, chat_history,
                   threadVars, fileVars, last_call, result_calls,
                   live_transcript_text, recording_start_time, now,
                   otherVars>>

----------------------------------------------------------------------------
(* Settings made by the caller between sessions *)

set_mode(m) ==
    /\ recording_mode' = m
    /\ UNCHANGED <<is_recording, processing_audio, model_loading,
                   whisper_model, registry, coach_enabled, temp_audio_file,
                   part_file, chat_history, preload_pc, threadVars, fileVars,
                   seenVars, live_transcript_text, recording_start_time, now,
                   otherVars>>

set_coach_enabled(enabled) ==
    /\ coach_enabled' = enabled
    /\ UNCHANGED <<is_recording, processing_audio, model_loading,
                   whisper_model, recording_mode, registry, temp_audio_file,
                   part_file, chat_history, preload_pc, threadVars, fileVars,
                   seenVars, live_transcript_text, recording_start_time, now,
                   otherVars>>

----------------------------------------------------------------------------
(* start_recording and stop_recording *)

\* The threads start_recording starts for session s
SpawnThreads(s) ==
    /\ rec_pc' = [rec_pc EXCEPT ![s] = "start"]
    /\ trans_pc' = [trans_pc EXCEPT ![s] = "top"]
    /\ sum_pc' = [sum_pc EXCEPT ![s] = "reset"]
    /\ coach_pc' = [coach_pc EXCEPT ![s] = IF coach_enabled THEN "grace"
                                            ELSE "none"]

\* The part of start_recording after its guards
StartSession ==
    /\ session < MaxSessions
    /\ is_recording' = TRUE
    /\ live_transcript_text' = ""
    /\ session' = session + 1
    /\ SpawnThreads(session + 1)
    /\ recording_start_time' = now
    /\ status' = "Initializing..."
    /\ last_call' = "none"

\* A start_recording call that returns before changing anything
StartIgnored ==
    /\ last_call' = "start_ignored"
    /\ UNCHANGED <<appVars, threadVars, fileVars, status, result_calls,
                   live_transcript_text, recording_start_time, now,
                   otherVars>>

\* start_recording after its two guards: the devices are detected again,
\* the mode's device is checked, the session starts
StartBody(sc) ==
    /\ detect_devices(sc)
    /\ IF recording_mode = "system" /\ blackhole_device' = NotFound
       THEN /\ status' = "BlackHole Not Found"
            /\ last_call' = "none"
            /\ UNCHANGED <<is_recording, session, rec_pc, loopPcs,
                           live_transcript_text, recording_start_time>>
       ELSE IF recording_mode = "hybrid" /\ hybrid_device' = NotFound
       THEN /\ status' = "BBrew Hybrid Not Found"
            /\ last_call' = "none"
            /\ UNCHANGED <<is_recording, session, rec_pc, loopPcs,
                           live_transcript_text, recording_start_time>>
       ELSE StartSession
    /\ UNCHANGED <<processing_audio, model_loading, whisper_model,
                   recording_mode, coach_enabled, temp_audio_file, part_file,
                   chat_history, preload_pc, stopVars, fileVars,
                   result_calls, now>>

\* the same as one step of the calling thread
StartProceed(sc) == StartBody(sc) /\ UNCHANGED otherVars

\* start_recording without the test of the loading flag
StartWhileLoading(sc) == StartProceed(sc)

\* start_recording after the test of the recording flag
StartChecked(sc) ==
    IF model_loading
    THEN /\ status' = "AI Loading - Please Wait"
         /\ last_call' = "none"
         /\ UNCHANGED <<appVars, threadVars, fileVars, result_calls,
                        live_transcript_text, recording_start_time, now,
                        otherVars>>
    ELSE StartProceed(sc)

\* start_recording without its first line
StartUnguarded(sc) == StartChecked(sc)

start_recording(sc) ==
    IF is_recording THEN StartIgnored ELSE StartChecked(sc)

\* start_recording on a thread of its own, as the API's start request runs
\* it: the two guards are one step of the thread, the rest of the call is a
\* later step, and no lock is held between the two
Callers == 1..MaxCallers

\* the thread of caller c reads the recording flag and the loading flag
StartCallEnter(c) ==
    /\ start_pc[c] = "idle"
    /\ IF is_recording
       THEN /\ start_pc' = [start_pc EXCEPT ![c] = "returned"]
            /\ last_call' = "start_ignored"
            /\ UNCHANGED status
       ELSE IF model_loading
       THEN /\ start_pc' = [start_pc EXCEPT ![c] = "returned"]
            /\ last_call' = "none"
            /\ status' = "AI Loading - Please Wait"
       ELSE /\ start_pc' = [start_pc EXCEPT ![c] = "passed"]
            /\ UNCHANGED <<last_call, status>>
    /\ UNCHANGED <<appVars, threadVars, fileVars, result_calls,
                   live_transcript_text, recording_start_time, now,
                   configVars, transVars, insightVars, coachVars, mixVars,
                   sleepVars, lockVars>>

\* the thread of caller c, past the guards, runs the rest of the call
StartCallProceed(c, sc) ==
    /\ start_pc[c] = "passed"
    /\ StartBody(sc)
    /\ start_pc' = [start_pc EXCEPT ![c] = "returned"]
    /\ UNCHANGED <<configVars, transVars, insightVars, coachVars, mixVars,
                   sleepVars, lockVars>>

\* A stop_recording call that returns before changing anything
StopIgnored ==
    /\ last_call' = "stop_ignored"
    /\ UNCHANGED <<appVars, threadVars, fileVars, status, result_calls,
                   live_transcript_text, recording_start_time, now,
                   otherVars>>

\* stop_recording after the test of the processing guard
StopAccepted ==
    /\ is_recording' = FALSE
    /\ processing_audio' = TRUE
    /\ status' = "Processing final audio..."
    /\ stop_pc' = "join"
    /\ stop_threads' = stop_threads + 1
    /\ last_call' = "none"
    /\ UNCHANGED <<model_loading, whisper_model, recording_mode, registry,
                   coach_enabled, temp_audio_file, part_file, chat_history,
                   preload_pc, session, rec_pc, loopPcs, final_transcript,
                   fileVars, result_calls, live_transcript_text,
                   recording_start_time, now, otherVars>>

\* stop_recording without its guard
StopUnguarded == StopAccepted

stop_recording ==
    IF processing_audio THEN StopIgnored ELSE StopAccepted

----------------------------------------------------------------------------
(* The capture thread: record_audio *)

\* the descriptor record_audio opens for a mode
DeviceFor(mode) ==
    IF mode = "hybrid" THEN hybrid_device
    ELSE IF mode = "system" THEN blackhole_device
    ELSE microphone_device

\* mkstemp creates the canonical file and returns its path; then the input
\* stream and the .part wave file are opened.  opened is FALSE when either
\* open raises: the handler publishes the error and clears the flag.
RecStart(s, opened) ==
    /\ rec_pc[s] = "start"
    /\ temp_audio_file' = s
    /\ part_file' = s
    /\ canon' = [canon EXCEPT ![s] = EmptyFile]
    /\ IF opened
       THEN /\ status' = "Recording..."
            /\ partf' = [partf EXCEPT ![s] = OpenWav(0)]
            /\ rec_pc' = [rec_pc EXCEPT ![s] = "write"]
            /\ UNCHANGED is_recording
       ELSE /\ status' = "Error: Recording Failed"
            /\ is_recording' = FALSE
            /\ rec_pc' = [rec_pc EXCEPT ![s] = "failed"]
            /\ UNCHANGED partf
    /\ UNCHANGED <<processing_audio, model_loading, whisper_model,
                   recording_mode, registry, coach_enabled, chat_history,
                   preload_pc, session, loopPcs, stopVars, readf, last_call,
                   result_calls, live_transcript_text, recording_start_time,
                   now, otherVars>>

\* The wave file handle of thread s refers to the file it opened, also
\* after that file was unlinked
WriteBlock(f) == IF f.st = "open" THEN OpenWav(f.n + 1) ELSE f
CloseWav(f) == IF f.st = "open" THEN ClosedWav(f.n) ELSE f

\* one iteration of the write loop that got a block from the queue
RecWrite(s) ==
    /\ rec_pc[s] = "write"
    /\ is_recording
    /\ partf[s].n < MaxBlocks
    /\ partf' = [partf EXCEPT ![s] = WriteBlock(@)]
    /\ UNCHANGED <<appVars, threadVars, canon, readf, seenVars,
                   live_transcript_text, recording_start_time, now,
                   otherVars>>

\* writeframes raises: the loop logs and breaks, the with blocks close the
\* wave file and the stream
RecWriteError(s) ==
    /\ rec_pc[s] = "write"
    /\ is_recording
    /\ partf' = [partf EXCEPT ![s] = CloseWav(@)]
    /\ rec_pc' = [rec_pc EXCEPT ![s] = "rename"]
    /\ UNCHANGED <<appVars, session, loopPcs, stopVars, canon, readf,
                   seenVars, live_transcript_text, recording_start_time, now,
                   otherVars>>

\* the loop test finds the flag cleared
RecLoopExit(s) ==
    /\ rec_pc[s] = "write"
    /\ ~is_recording
    /\ partf' = [partf EXCEPT ![s] = CloseWav(@)]
    /\ rec_pc' = [rec_pc EXCEPT ![s] = "rename"]
    /\ UNCHANGED <<appVars, session, loopPcs, stopVars, canon, readf,
                   seenVars, live_transcript_text, recording_start_time, now,
                   otherVars>>

\* os.rename(self.part_file, self.temp_audio_file), with the copy and
\* remove fallback: the paths are the attributes' values at this moment
Promote(c, p, from, to) == [c EXCEPT ![to] = p[from]]
Unlink(p, path) == [p EXCEPT ![path] = Absent]

RecRename(s, moved) ==
    /\ rec_pc[s] = "rename"
    /\ IF moved /\ Exists(partf[part_file])
       THEN /\ canon' = Promote(canon, partf, part_file, temp_audio_file)
            /\ partf' = Unlink(partf, part_file)
       ELSE UNCHANGED <<canon, partf>>
    /\ rec_pc' = [rec_pc EXCEPT ![s] = "done"]
    /\ UNCHANGED <<appVars, session, loopPcs, stopVars, readf, seenVars,
                   live_transcript_text, recording_start_time, now,
                   otherVars>>

----------------------------------------------------------------------------
(* The stop task: _async_stop_and_process and process_audio *)

\* The four joins: each returns when its thread has ended or after its
\* timeout, so the task goes on whatever the threads do
AsyncStopJoin ==
    /\ stop_pc = "join"
    /\ coach_enabled' = FALSE
    /\ stop_pc' = "process"
    /\ UNCHANGED <<is_recording, processing_audio, model_loading,
                   whisper_model, recording_mode, registry, temp_audio_file,
                   part_file, chat_history, preload_pc, session, rec_pc,
                   loopPcs, stop_threads, final_transcript, fileVars,
                   seenVars, live_transcript_text, recording_start_time, now,
                   otherVars>>

\* the task without its finally clause
FinishGuardKept ==
    /\ processing_audio' = processing_audio
    /\ stop_pc' = "none"
    /\ stop_threads' = stop_threads - 1
    /\ final_transcript' = ""

\* the finally clause of _async_stop_and_process
Finish ==
    /\ processing_audio' = FALSE
    /\ stop_pc' = "none"
    /\ stop_threads' = stop_threads - 1
    /\ final_transcript' = ""

\* the finally clause of process_audio, on the files c, p and r
CleanCanon(c) == IF temp_audio_file # 0 THEN Unlink(c, temp_audio_file) ELSE c
CleanPart(p) == IF part_file # 0 THEN Unlink(p, part_file) ELSE p
CleanRead(r) == IF part_file # 0 THEN Unlink(r, part_file) ELSE r

\* the size test left out
SizeUnchecked(f) == FALSE

\* os.path.getsize(self.temp_audio_file) < 4096
TooSmall(f) == FileSize(f) < MinFinalBytes

\* process_audio up to the call of whisper_model.transcribe
ProcessStart(renamed, loaded) ==
    /\ stop_pc = "process"
    /\ IF temp_audio_file = 0
       THEN /\ status' = "Error: No audio file path set"
            /\ Finish
            /\ UNCHANGED <<whisper_model, fileVars>>
       ELSE IF ~Exists(canon[temp_audio_file])
               /\ ~(part_file # 0 /\ Exists(partf[part_file]))
       THEN /\ status' = "Error: No audio file"
            /\ Finish
            /\ UNCHANGED <<whisper_model, fileVars>>
       ELSE IF ~Exists(canon[temp_audio_file]) /\ ~renamed
       THEN /\ status' = "Error: Audio file not ready"
            /\ Finish
            /\ UNCHANGED <<whisper_model, fileVars>>
       ELSE LET late == ~Exists(canon[temp_audio_file])
                c2 == IF late
                      THEN Promote(canon, partf, part_file, temp_audio_file)
                      ELSE canon
                p2 == IF late THEN Unlink(partf, part_file) ELSE partf
            IN  IF ~whisper_model /\ ~loaded
                THEN /\ status' = "Processing error: model"
                     /\ Finish
                     /\ canon' = CleanCanon(c2)
                     /\ partf' = CleanPart(p2)
                     /\ readf' = CleanRead(readf)
                     /\ UNCHANGED whisper_model
                ELSE IF TooSmall(c2[temp_audio_file])
                THEN /\ status' = "Processing error: File too small"
                     /\ Finish
                     /\ whisper_model' = TRUE
                     /\ canon' = CleanCanon(c2)
                     /\ partf' = CleanPart(p2)
                     /\ readf' = CleanRead(readf)
                ELSE /\ status' = "Finalizing Transcript..."
                     /\ stop_pc' = "transcribe"
                     /\ whisper_model' = TRUE
                     /\ canon' = c2
                     /\ partf' = p2
                     /\ UNCHANGED <<processing_audio, stop_threads,
                                    final_transcript, readf>>
    /\ UNCHANGED <<is_recording, model_loading, recording_mode, registry,
                   coach_enabled, temp_audio_file, part_file, chat_history,
                   preload_pc, session, rec_pc, loopPcs, last_call,
                   result_calls, live_transcript_text, recording_start_time,
                   now, otherVars>>

\* whisper_model.transcribe returns segments, returns none, or raises
ProcessTranscribed(result) ==
    /\ stop_pc = "transcribe"
    /\ IF result = "raise"
       THEN /\ status' = "Processing error: transcribe"
            /\ Finish
            /\ canon' = CleanCanon(canon)
            /\ partf' = CleanPart(partf)
            /\ readf' = CleanRead(readf)
       ELSE /\ status' = "Generating AI Summary..."
            /\ final_transcript' = IF result = "segments"
                                   THEN "[00:00-00:05] Speaker: text"
                                   ELSE "(No speech detected in recording)"
            /\ stop_pc' = "summarize"
            /\ UNCHANGED <<processing_audio, stop_threads, fileVars>>
    /\ UNCHANGED <<is_recording, model_loading, whisper_model,
                   recording_mode, registry, coach_enabled, temp_audio_file,
                   part_file, chat_history, preload_pc, session, rec_pc,
                   loopPcs, last_call, result_calls, live_transcript_text,
                   recording_start_time, now, otherVars>>

\* ---- generate_summary and the provider summarizers

\* a key the dict does not hold
NoField == "(absent)"

\* the raw text of a provider's reply and its length in characters
SummaryTexts == {"", "not json", "long reply"}
SalvageChars == 500
SummaryTextLen(text) ==
    CASE text = "" -> 0
      [] text = "not json" -> 8
      [] OTHER -> 600

\* text[:500]
SalvagePrefix(text) ==
    IF SummaryTextLen(text) <= SalvageChars THEN text ELSE "long reply[:500]"

\* What one summary request meets: the library, the credential, Ollama's
\* health check, and the reply: a JSON object, JSON that is no object, text
\* that is no JSON, an HTTP body that is no JSON, a timeout, any other
\* exception.
SummaryKinds ==
    {"json", "non_object", "bad_json", "bad_envelope", "timeout",
     "exception"}
SummaryResponses ==
    [lib : {TRUE}, key : {TRUE}, health : {"ok"}, kind : SummaryKinds,
     text : SummaryTexts]
    \cup [lib : BOOLEAN, key : BOOLEAN,
          health : {"ok", "conn", "timeout", "error"}, kind : {"json"},
          text : {""}]

\* an error summary without the transcript key
ErrorSummaryBare(error_msg, transcript) ==
    [title |-> "Error Processing", executive_summary |-> error_msg,
     full_summary |-> "", transcript |-> NoField]

\* error_summary
error_summary(error_msg, transcript) ==
    [title |-> "Error Processing", executive_summary |-> error_msg,
     full_summary |-> "", transcript |-> transcript]

\* the parsed object after data["transcript"] = transcript
ParsedSummary(transcript) ==
    [title |-> "Meeting", executive_summary |-> "summary",
     full_summary |-> NoField, transcript |-> transcript]

\* the except json.JSONDecodeError clause of _summarize_with_ollama
SalvagedSummary(text, transcript) ==
    [title |-> "Meeting Nov 05",
     executive_summary |-> IF text # "" THEN SalvagePrefix(text)
                           ELSE "Ollama returned unparseable output.",
     full_summary |-> text, transcript |-> transcript]

\* _summarize_with_gemini
summarize_with_gemini(transcript, r) ==
    CASE ~r.lib -> error_summary("Google GenAI Lib Missing", transcript)
      [] r.lib /\ ~r.key -> error_summary("Gemini API Key Missing", transcript)
      [] r.lib /\ r.key /\ r.kind = "json" -> ParsedSummary(transcript)
      [] r.lib /\ r.key /\ r.kind = "bad_json" ->
             error_summary("Failed to parse AI response", transcript)
      [] OTHER -> error_summary("Gemini Error", transcript)

\* _summarize_with_ollama, on the paths that return
summarize_with_ollama(transcript, r) ==
    CASE r.health = "conn" ->
             error_summary("Ollama not running. Start with: ollama serve",
                           transcript)
      [] r.health = "timeout" ->
             error_summary("Ollama health check timed out", transcript)
      [] r.health = "error" ->
             error_summary("Ollama connection error", transcript)
      [] r.health = "ok" /\ r.kind = "json" -> ParsedSummary(transcript)
      [] r.health = "ok" /\ r.kind = "bad_json" ->
             SalvagedSummary(r.text, transcript)
      [] r.health = "ok" /\ r.kind = "timeout" ->
             error_summary("Ollama timed out after 180s", transcript)
      [] OTHER -> error_summary("Ollama error", transcript)

\* _summarize_with_openai
summarize_with_openai(transcript, r) ==
    CASE ~r.lib -> error_summary("OpenAI library not installed", transcript)
      [] r.lib /\ ~r.key -> error_summary("OpenAI API Key Missing", transcript)
      [] r.lib /\ r.key /\ r.kind = "json" -> ParsedSummary(transcript)
      [] r.lib /\ r.key /\ r.kind = "bad_json" ->
             error_summary("OpenAI returned invalid JSON", transcript)
      [] OTHER -> error_summary("OpenAI error", transcript)

\* _summarize_with_anthropic
summarize_with_anthropic(transcript, r) ==
    CASE ~r.lib ->
             error_summary("Anthropic library not installed", transcript)
      [] r.lib /\ ~r.key ->
             error_summary("Anthropic API Key Missing", transcript)
      [] r.lib /\ r.key /\ r.kind = "json" -> ParsedSummary(transcript)
      [] r.lib /\ r.key /\ r.kind = "bad_json" ->
             error_summary("Anthropic returned invalid JSON", transcript)
      [] OTHER -> error_summary("Anthropic error", transcript)

\* generate_summary
generate_summary(llm, transcript, r) ==
    CASE llm = "gemini" -> summarize_with_gemini(transcript, r)
      [] llm = "ollama" -> summarize_with_ollama(transcript, r)
      [] llm = "openai" -> summarize_with_openai(transcript, r)
      [] llm = "anthropic" -> summarize_with_anthropic(transcript, r)
      [] OTHER -> error_summary("Unsupported LLM", transcript)

\* generate_summary raises: response.json() of _summarize_with_ollama fails
\* before text is bound, and the except clause reads text
SummaryRaises(llm, r) ==
    llm = "ollama" /\ r.health = "ok" /\ r.kind = "bad_envelope"

\* the request reached the provider and a reply came back
Replied(llm, r) ==
    IF llm = "ollama" THEN r.health = "ok" ELSE r.lib /\ r.key

\* save_to_history
save_to_history(transcript, summary_data) ==
    chat_history' =
        <<IF summary_data.transcript = NoField
          THEN [summary_data EXCEPT !.transcript = transcript]
          ELSE summary_data>> \o chat_history

\* a callback called twice
NotifyTwice ==
    result_calls' = IF result_callback THEN result_calls + 2 ELSE result_calls

\* the result callback after save_to_history
NotifyResult ==
    result_calls' = IF result_callback THEN result_calls + 1 ELSE result_calls

\* generate_summary returns a summary or raises; then save_to_history, the
\* result callback, and the except and finally clauses
ProcessSummarized(r) ==
    /\ stop_pc = "summarize"
    /\ IF ~SummaryRaises(default_llm, r)
       THEN /\ save_to_history(final_transcript,
                               generate_summary(default_llm,
                                                final_transcript, r))
            /\ NotifyResult
            /\ status' = "Ready"
       ELSE /\ status' = "Processing error: summary"
            /\ UNCHANGED <<chat_history, result_calls>>
    /\ Finish
    /\ canon' = CleanCanon(canon)
    /\ partf' = CleanPart(partf)
    /\ readf' = CleanRead(readf)
    /\ UNCHANGED <<is_recording, model_loading, whisper_model,
                   recording_mode, registry, coach_enabled, temp_audio_file,
                   part_file, preload_pc, session, rec_pc, loopPcs,
                   last_call, live_transcript_text, recording_start_time,
                   now, otherVars>>

----------------------------------------------------------------------------
(* The live-transcription loop: live_transcribe_loop *)

\* accepted Router calls per loop
MaxCalls == 2

Texts == {"", "short", "long"}
TextLen(t) == IF t = "" THEN 0 ELSE IF t = "short" THEN 5 ELSE 60

\* the test of the while loop
TransTop(s) ==
    /\ trans_pc[s] = "top"
    /\ trans_pc' = [trans_pc EXCEPT ![s] = IF is_recording THEN "sleep"
                                            ELSE "done"]
    /\ UNCHANGED <<appVars, session, rec_pc, sum_pc, coach_pc, stopVars,
                   fileVars, seenVars, live_transcript_text,
                   recording_start_time, now, otherVars>>

\* One tick up to the call of whisper: the prerequisites, then ffmpeg
\* copies the .part file to the snapshot (repaired is FALSE when ffmpeg
\* times out or fails)
TransTick(s, repaired) ==
    /\ trans_pc[s] = "sleep"
    /\ IF ~whisper_model
       THEN /\ transcript_seen' = IF transcript_callback
                                  THEN "Loading speech recognition model..."
                                  ELSE transcript_seen
            /\ trans_pc' = [trans_pc EXCEPT ![s] = "top"]
            /\ UNCHANGED <<temp_read_file, readf>>
       ELSE IF part_file = 0 \/ ~Exists(partf[part_file])
               \/ FileSize(partf[part_file]) < MinLiveBytes
       THEN /\ trans_pc' = [trans_pc EXCEPT ![s] = "top"]
            /\ UNCHANGED <<temp_read_file, transcript_seen, readf>>
       ELSE IF ~ffmpeg_path
       THEN /\ trans_pc' = [trans_pc EXCEPT ![s] = "done"]
            /\ UNCHANGED <<temp_read_file, transcript_seen, readf>>
       ELSE IF ~repaired
       THEN /\ trans_pc' = [trans_pc EXCEPT ![s] = "top"]
            /\ temp_read_file' = [temp_read_file EXCEPT ![s] = part_file]
            /\ UNCHANGED <<transcript_seen, readf>>
       ELSE /\ trans_pc' = [trans_pc EXCEPT ![s] = "call"]
            /\ temp_read_file' = [temp_read_file EXCEPT ![s] = part_file]
            /\ readf' = [readf EXCEPT
                            ![part_file] = ClosedWav(partf[part_file].n)]
            /\ UNCHANGED transcript_seen
    /\ UNCHANGED <<appVars, session, rec_pc, sum_pc, coach_pc, stopVars,
                   canon, partf, seenVars, live_transcript_text,
                   recording_start_time, now, configVars, extraVars, coachVars, mixVars,
                   insightVars>>

\* whisper returns text (or raised is TRUE): the text is published and
\* stored, and the snapshot is removed
TransResult(s, text, raised) ==
    /\ trans_pc[s] = "call"
    /\ IF raised
       THEN UNCHANGED <<live_transcript_text, transcript_seen, readf>>
       ELSE /\ live_transcript_text' =
                   IF text # "" /\ transcript_callback THEN text
                   ELSE live_transcript_text
            /\ transcript_seen' =
                   IF ~transcript_callback THEN transcript_seen
                   ELSE IF text # "" THEN text
                   ELSE "(Listening... no speech detected yet)"
            /\ readf' = Unlink(readf, temp_read_file[s])
    /\ trans_pc' = [trans_pc EXCEPT ![s] = "top"]
    /\ UNCHANGED <<appVars, session, rec_pc, sum_pc, coach_pc, stopVars,
                   canon, partf, seenVars, recording_start_time, now,
                   configVars, extraVars, coachVars, mixVars, temp_read_file,
                   insightVars>>

----------------------------------------------------------------------------
(* The Router: _call_llm_json *)

Providers == {"gemini", "ollama", "openai", "anthropic"}
LlmSettings == Providers \cup {"llamafile"}
None == [none |-> TRUE]
NoError == "none"

Items == {"a"}
InsightKeys == {"meeting_type", "action_items", "decisions"}
FullObjects == [meeting_type : {"standup"},
                action_items : SUBSET Items, decisions : SUBSET Items]
Restrict(d, K) == [k \in K |-> d[k]]
\* the JSON objects a response can hold: any of the keys, any values
JsonObjects == {Restrict(d, K) : d \in FullObjects, K \in SUBSET InsightKeys}
EmptyObject == <<>>

\* What the provider's side does on one call: lib and key say whether the
\* client library is installed and a key is stored; kind is how the request
\* ends; data is the value the response text parses to; slow says whether
\* the request took more than 45 seconds.
Responses ==
    [lib : BOOLEAN, key : BOOLEAN, kind : {"json"}, data : JsonObjects,
     slow : BOOLEAN]
    \cup [lib : BOOLEAN, key : BOOLEAN,
          kind : {"bad_json", "conn_error", "exception"},
          data : {EmptyObject}, slow : BOOLEAN]

Unavailable == [gemini |-> "gemini_unavailable",
                openai |-> "openai_unavailable",
                anthropic |-> "anthropic_unavailable"]
NoKey == [gemini |-> "gemini_no_key", openai |-> "openai_no_key",
          anthropic |-> "anthropic_no_key"]

Failure(tag) == [data |-> None, error |-> tag, elapsed |-> 0]

\* The part of a provider branch inside its try block: the elapsed time
\* is kept only by the ollama branch and only when the parse succeeds
ProviderCall(llm, r) ==
    IF r.kind = "json"
    THEN [data |-> r.data, error |-> NoError,
          elapsed |-> IF llm = "ollama" /\ r.slow THEN 46 ELSE 0]
    ELSE IF r.kind = "bad_json" THEN Failure("json_parse")
    ELSE IF r.kind = "conn_error" /\ llm = "ollama"
    THEN Failure("ollama_not_running")
    ELSE Failure("str(e)")

call_llm_json(llm, r) ==
    IF llm \in {"gemini", "openai", "anthropic"}
    THEN IF ~r.lib THEN Failure(Unavailable[llm])
         ELSE IF ~r.key THEN Failure(NoKey[llm])
         ELSE ProviderCall(llm, r)
    ELSE IF llm = "ollama" THEN ProviderCall(llm, r)
    ELSE Failure("unsupported_provider_llamafile")

----------------------------------------------------------------------------
(* The insight loop: live_summary_loop *)

\* a call slower than this disables the ollama provider
SlowSeconds == 45

EmptyInsights == [meeting_type |-> "none", action_items |-> {},
                  decisions |-> {}]

\* dict.update
Update(d, data) ==
    [k \in DOMAIN d \cup DOMAIN data |->
        IF k \in DOMAIN data THEN data[k] ELSE d[k]]

\* the truth value of the Router's data: None and the empty object are false
Truthy(data) == data # None /\ DOMAIN data # {}

FatalErrors == {"gemini_unavailable", "gemini_no_key", "ollama_not_running",
                "openai_unavailable", "openai_no_key",
                "anthropic_unavailable", "anthropic_no_key"}
\* the test without the credential-missing tags
IsFatalButNoKey(error) ==
    error \in {"gemini_unavailable", "ollama_not_running",
               "openai_unavailable", "anthropic_unavailable"}
    \/ error = "unsupported_provider_llamafile"

\* the test without the unsupported-provider prefix
IsFatalTagged(error) == error \in FatalErrors

IsFatal(error) ==
    error \in FatalErrors \/ error = "unsupported_provider_llamafile"

\* the thread starts: the insights are reset, then the grace period begins
SumReset(s) ==
    /\ sum_pc[s] = "reset"
    /\ live_insights' = EmptyInsights
    /\ summary_count' = [summary_count EXCEPT ![s] = 0]
    /\ ollama_disabled' = [ollama_disabled EXCEPT ![s] = FALSE]
    /\ sum_pc' = [sum_pc EXCEPT ![s] = "grace"]
    /\ UNCHANGED <<appVars, session, rec_pc, trans_pc, coach_pc, stopVars,
                   fileVars, seenVars, live_transcript_text,
                   recording_start_time, now, configVars, extraVars, coachVars, mixVars,
                   transVars, insight_calls, first_error, summary_seen>>

\* time.sleep(interval) and time.sleep(10) return
SumSleepEnd(s) ==
    /\ sum_pc[s] \in {"grace", "wait"}
    /\ sum_pc' = [sum_pc EXCEPT ![s] = "top"]
    /\ UNCHANGED <<appVars, session, rec_pc, trans_pc, coach_pc, stopVars,
                   fileVars, seenVars, live_transcript_text,
                   recording_start_time, now, otherVars>>

\* The loop test and the tick up to the Router call
SumTop(s) ==
    /\ sum_pc[s] = "top"
    /\ IF ~is_recording
       THEN /\ sum_pc' = [sum_pc EXCEPT ![s] = "done"]
            /\ UNCHANGED insight_calls
       ELSE IF TextLen(live_transcript_text) < MinTranscriptChars
       THEN /\ sum_pc' = [sum_pc EXCEPT ![s] = "wait"]
            /\ UNCHANGED insight_calls
       ELSE IF default_llm = "ollama" /\ ollama_disabled[s]
       THEN /\ sum_pc' = [sum_pc EXCEPT ![s] = "done"]
            /\ UNCHANGED insight_calls
       ELSE /\ insight_calls[s] < MaxCalls
            /\ sum_pc' = [sum_pc EXCEPT ![s] = "call"]
            /\ insight_calls' = [insight_calls EXCEPT ![s] = @ + 1]
    /\ UNCHANGED <<appVars, session, rec_pc, trans_pc, coach_pc, stopVars,
                   fileVars, seenVars, live_transcript_text,
                   recording_start_time, now, configVars, extraVars, coachVars, mixVars,
                   transVars, live_insights, summary_count, ollama_disabled,
                   first_error, summary_seen>>

\* How a successful tick stores the Router's data
MergeInsights(insights, data) == Update(insights, data)

\* what the tick passes to summary_callback: the Router's data
summary_payload(data) == data

\* The Router call returns: the rest of the tick
SumResult(s, r) ==
    LET out == call_llm_json(default_llm, r) IN
    /\ sum_pc[s] = "call"
    /\ first_error' = IF insight_calls[s] = 1
                      THEN [first_error EXCEPT ![s] = out.error]
                      ELSE first_error
    /\ IF IsFatal(out.error)
       THEN /\ sum_pc' = [sum_pc EXCEPT ![s] = "done"]
            /\ UNCHANGED <<live_insights, summary_count, ollama_disabled,
                           summary_seen>>
       ELSE /\ sum_pc' = [sum_pc EXCEPT ![s] = "pause"]
            /\ ollama_disabled' =
                   [ollama_disabled EXCEPT
                       ![s] = @ \/ (default_llm = "ollama"
                                    /\ out.elapsed > SlowSeconds)]
            /\ IF Truthy(out.data)
               THEN /\ summary_count' = [summary_count EXCEPT ![s] = @ + 1]
                    /\ live_insights' = MergeInsights(live_insights, out.data)
                    /\ summary_seen' = (summary_seen \/ summary_callback)
               ELSE UNCHANGED <<live_insights, summary_count, summary_seen>>
    /\ UNCHANGED <<appVars, session, rec_pc, trans_pc, coach_pc, stopVars,
                   fileVars, seenVars, live_transcript_text,
                   recording_start_time, now, configVars, extraVars, coachVars, mixVars,
                   transVars, insight_calls>>

\* the wait between updates ends: interval seconds passed, or the flag was
\* found cleared
SumPause(s) ==
    /\ sum_pc[s] = "pause"
    /\ sum_pc' = [sum_pc EXCEPT ![s] = "top"]
    /\ UNCHANGED <<appVars, session, rec_pc, trans_pc, coach_pc, stopVars,
                   fileVars, seenVars, live_transcript_text,
                   recording_start_time, now, otherVars>>

----------------------------------------------------------------------------
(* The sleeps of the three loops, on a clock of seconds.  The calls of a
   tick (ffmpeg, whisper, the Router) take no time here, so that a loop is
   either asleep or about to test the recording flag. *)

Loops == {"transcribe", "insight", "coach"}

\* time.sleep(3) of live_transcribe_loop
TranscribeSleep == 3
\* interval of live_summary_loop under ollama and under the other providers
OllamaInterval == 60
CloudInterval == 30
\* the fallback of coach_interval
CoachInterval == 30
\* time.sleep(10), the wait for a transcript of 50 characters
WaitSleep == 10
\* time.sleep(1), the increment of the wait between two ticks
SleepIncrement == 1
\* join(timeout=3.0) of _async_stop_and_process
JoinTimeout == 3

\* the interval a loop reads when it starts
Interval(l) ==
    IF l = "coach" THEN CoachInterval
    ELSE IF default_llm = "ollama" THEN OllamaInterval ELSE CloudInterval

napFrame == <<appVars, threadVars, fileVars, seenVars, live_transcript_text,
              recording_start_time, now, configVars, transVars, insightVars,
              coachVars, mixVars, callVars, lockVars>>

\* the three threads start_recording has started begin to run: the
\* transcription loop is at its loop test, the other two in
\* time.sleep(interval)
NapBegin ==
    /\ is_recording
    /\ \A l \in Loops : nap_pc[l] = "none"
    /\ nap_pc' = [l \in Loops |-> IF l = "transcribe" THEN "top" ELSE "grace"]
    /\ nap_left' = [l \in Loops |-> IF l = "transcribe" THEN 0
                                     ELSE Interval(l)]
    /\ UNCHANGED <<since_stop, napFrame>>

\* 'while self.is_recording' of loop l; long says whether the transcript
\* has reached 50 characters
NapTop(l, long) ==
    /\ nap_pc[l] = "top"
    /\ IF ~is_recording
       THEN /\ nap_pc' = [nap_pc EXCEPT ![l] = "done"]
            /\ UNCHANGED nap_left
       ELSE IF l = "transcribe"
       THEN /\ nap_pc' = [nap_pc EXCEPT ![l] = "sleep"]
            /\ nap_left' = [nap_left EXCEPT ![l] = TranscribeSleep]
       ELSE IF ~long
       THEN /\ nap_pc' = [nap_pc EXCEPT ![l] = "wait"]
            /\ nap_left' = [nap_left EXCEPT ![l] = WaitSleep]
       ELSE /\ nap_pc' = [nap_pc EXCEPT ![l] = "pause"]
            /\ nap_left' = [nap_left EXCEPT ![l] = 0]
    /\ UNCHANGED <<since_stop, napFrame>>

\* a time.sleep call of loop l returns: the loop goes back to its loop
\* test (the transcription loop after the rest of its tick)
NapWake(l) ==
    /\ nap_pc[l] \in {"grace", "wait", "sleep"}
    /\ nap_left[l] = 0
    /\ nap_pc' = [nap_pc EXCEPT ![l] = "top"]
    /\ UNCHANGED <<nap_left, since_stop, napFrame>>

\* one round of 'for _ in range(interval)': the flag is tested, then
\* time.sleep(1); more is FALSE when the rounds are used up
NapRound(l, more) ==
    /\ nap_pc[l] = "pause"
    /\ nap_left[l] = 0
    /\ IF ~is_recording \/ ~more
       THEN /\ nap_pc' = [nap_pc EXCEPT ![l] = "top"]
            /\ UNCHANGED nap_left
       ELSE /\ nap_left' = [nap_left EXCEPT ![l] = SleepIncrement]
            /\ UNCHANGED nap_pc
    /\ UNCHANGED <<since_stop, napFrame>>

\* a second passes while every running loop is inside a time.sleep call
SecondPasses ==
    /\ \A l \in Loops : nap_pc[l] = "done" \/ nap_left[l] > 0
    /\ since_stop <= JoinTimeout
    /\ nap_left' = [l \in Loops |-> IF nap_left[l] > 0 THEN nap_left[l] - 1
                                     ELSE 0]
    /\ since_stop' = IF is_recording THEN 0 ELSE since_stop + 1
    /\ UNCHANGED <<nap_pc, napFrame>>

\* The loops' data after __init__, under one configuration and one
\* content kc, ak of the keychain and the config file's key section
InitLoopsWith(llm, ffmpeg, tcb, scb, rcb, kc, ak) ==
    /\ keychain = kc
    /\ api_keys = ak
    /\ default_llm = llm
    /\ ffmpeg_path = ffmpeg
    /\ transcript_callback = tcb
    /\ summary_callback = scb
    /\ result_callback = rcb
    /\ temp_read_file = [s \in Sessions |-> 0]
    /\ transcript_seen = ""
    /\ live_insights = EmptyInsights
    /\ summary_count = [s \in Sessions |-> 0]
    /\ ollama_disabled = [s \in Sessions |-> FALSE]
    /\ insight_calls = [s \in Sessions |-> 0]
    /\ first_error = [s \in Sessions |-> "pending"]
    /\ summary_seen = FALSE
    /\ expected_duration = 0
    /\ coach_alerts = <<>>
    /\ agenda = <<>>
    /\ mic_queue = <<>>
    /\ sys_queue = <<>>
    /\ mic_reader = "none"
    /\ sys_reader = "none"
    /\ mic_reads = 0
    /\ sys_reads = 0
    /\ active = 0
    /\ frames = <<>>
    /\ mix_pc = "idle"
    /\ start_pc = [c \in Callers |-> "idle"]
    /\ nap_pc = [l \in Loops |-> "none"]
    /\ nap_left = [l \in Loops |-> 0]
    /\ since_stop = 0
    /\ lock_owner = "none"
    /\ ctx_pc = "idle"

\* the same, with no key in the keychain: whether a provider has a key is
\* drawn with each request
InitLoops(llm, ffmpeg, tcb, scb, rcb) ==
    InitLoopsWith(llm, ffmpeg, tcb, scb, rcb,
                  [p \in KeyProviders |-> NoEntry],
                  [p \in KeyProviders |-> ""])

----------------------------------------------------------------------------
(* The meeting coach: set_meeting_context, _check_time_warnings and
   live_coach_loop *)

\* the clock advances MaxTicks times in one run, by ClockStep minutes
MaxTicks == 2
ClockStep == 3
\* alerts the provider returns over one run
MaxAlerts == 1
\* expected durations the caller sets, in minutes; 0 stands for None
Durations == {0, 4}

\* the wall clock advances
ClockAdvance ==
    /\ now < 1 + MaxTicks * ClockStep
    /\ now' = now + ClockStep
    /\ UNCHANGED <<appVars, threadVars, fileVars, seenVars,
                   live_transcript_text, recording_start_time, otherVars>>

\* time_mentioned of an agenda item not yet covered (None)
NotMentioned == -1

\* the agenda set_meeting_context makes of the texts agenda_items
FreshAgenda(agenda_items) ==
    [i \in 1..Len(agenda_items) |->
        [text |-> agenda_items[i], covered |-> FALSE,
         time_mentioned |-> NotMentioned]]

\* set_meeting_context: the only place that empties the alert list
set_meeting_context(agenda_items, duration) ==
    /\ expected_duration' = duration
    /\ coach_alerts' = <<>>
    /\ agenda' = FreshAgenda(agenda_items)
    /\ UNCHANGED <<appVars, threadVars, fileVars, seenVars,
                   live_transcript_text, recording_start_time, now,
                   configVars, extraVars, transVars, insightVars, mixVars>>

ctxFrame == <<appVars, threadVars, fileVars, seenVars, live_transcript_text,
              recording_start_time, now, configVars, transVars, insightVars,
              mixVars, callVars, sleepVars>>

\* set_meeting_context step by step.  'with self._state_lock:' is entered
CtxEnter ==
    /\ ctx_pc = "idle"
    /\ lock_owner = "none"
    /\ lock_owner' = "set_meeting_context"
    /\ ctx_pc' = "locked"
    /\ UNCHANGED <<coachVars, ctxFrame>>

\* the dict display calls _get_cached_feed_context: refresh_if_needed
\* fetches the feeds over the network when feed URLs are configured and the
\* cache is stale (fetch), else the cached strings are returned at once
CtxFeed(fetch) ==
    /\ ctx_pc = "locked"
    /\ ctx_pc' = IF fetch THEN "fetch" ELSE "store"
    /\ UNCHANGED <<lock_owner, coachVars, ctxFrame>>

\* feedparser.parse has returned for every URL
CtxFetched ==
    /\ ctx_pc = "fetch"
    /\ ctx_pc' = "store"
    /\ UNCHANGED <<lock_owner, coachVars, ctxFrame>>

\* the context is stored, the alerts are emptied and the lock is released
CtxStore(agenda_items, duration) ==
    /\ ctx_pc = "store"
    /\ expected_duration' = duration
    /\ coach_alerts' = <<>>
    /\ agenda' = FreshAgenda(agenda_items)
    /\ lock_owner' = "none"
    /\ ctx_pc' = "idle"
    /\ UNCHANGED ctxFrame

\* An alert: its id and, for the record, the session during which it was
\* made
Alert(id, s) == [id |-> id, born |-> s]

Thresholds == <<75, 90, 100>>
AlertKey(pct) == IF pct = 75 THEN "time_75"
                 ELSE IF pct = 90 THEN "time_90" ELSE "time_100"

\* the minutes since the session clock was set
Elapsed == now - recording_start_time

\* elapsed_minutes >= expected * pct
Crossed(pct) == Elapsed * 100 >= expected_duration * pct

AlreadyFired(alerts, pct) ==
    \E i \in 1..Len(alerts) : alerts[i].id = AlertKey(pct)

\* the body of the for loop of _check_time_warnings, for thresholds i..3
RECURSIVE TimeWarnings(_, _, _)
TimeWarnings(alerts, s, i) ==
    IF i > Len(Thresholds) THEN alerts
    ELSE IF Crossed(Thresholds[i]) /\ ~AlreadyFired(alerts, Thresholds[i])
    THEN TimeWarnings(Append(alerts, Alert(AlertKey(Thresholds[i]), s)),
                      s, i + 1)
    ELSE TimeWarnings(alerts, s, i + 1)

\* the time check that puts its warnings in front of the list
TimeWarningsInFront(alerts, s) ==
    IF \E i \in 1..Len(Thresholds) :
           Crossed(Thresholds[i]) /\ ~AlreadyFired(alerts, Thresholds[i])
    THEN TimeWarnings(<<>>, s, 1) \o alerts
    ELSE alerts

\* _check_time_warnings, called during session s
check_time_warnings(alerts, s) ==
    IF expected_duration = 0 \/ recording_start_time = 0 THEN alerts
    ELSE TimeWarnings(alerts, s, 1)

\* the JSON objects the coach prompt is answered with: new alerts or none
CoachObjects == {[alerts |-> n] : n \in 0..1} \cup {EmptyObject}
CoachResponses ==
    [lib : BOOLEAN, key : BOOLEAN, kind : {"json"}, data : CoachObjects,
     slow : {FALSE}]
    \cup [lib : BOOLEAN, key : BOOLEAN,
          kind : {"bad_json", "conn_error", "exception"},
          data : {EmptyObject}, slow : {FALSE}]

LlmAlerts(alerts) ==
    Cardinality({i \in 1..Len(alerts) : alerts[i].id = "uuid"})

\* time.sleep(interval), time.sleep(10) and the wait between ticks return
CoachSleepEnd(s) ==
    /\ coach_pc[s] \in {"grace", "wait", "pause"}
    /\ coach_pc' = [coach_pc EXCEPT ![s] = "top"]
    /\ UNCHANGED <<appVars, session, rec_pc, trans_pc, sum_pc, stopVars,
                   fileVars, seenVars, live_transcript_text,
                   recording_start_time, now, otherVars>>

\* The loop test and the tick up to the Router call
CoachTop(s) ==
    /\ coach_pc[s] = "top"
    /\ coach_pc' = [coach_pc EXCEPT ![s] =
           IF ~is_recording THEN "done"
           ELSE IF TextLen(live_transcript_text) < MinTranscriptChars
           THEN "wait"
           ELSE "call"]
    /\ UNCHANGED <<appVars, session, rec_pc, trans_pc, sum_pc, stopVars,
                   fileVars, seenVars, live_transcript_text,
                   recording_start_time, now, otherVars>>

\* the agenda update without the test of the item's covered flag
MarkAsTold(item, updates) ==
    IF \E k \in 1..Len(updates) : updates[k].text = item.text
    THEN LET k == CHOOSE k \in 1..Len(updates) : updates[k].text = item.text
         IN  [item EXCEPT !.covered = updates[k].covered,
                          !.time_mentioned = Elapsed]
    ELSE item

\* 'for status in agenda_updates: for item in agenda', seen from one item
MarkCovered(item, updates) ==
    IF /\ ~item.covered
       /\ \E k \in 1..Len(updates) :
              updates[k].text = item.text /\ updates[k].covered
    THEN [item EXCEPT !.covered = TRUE,
                      !.time_mentioned = IF recording_start_time # 0
                                         THEN Elapsed ELSE @]
    ELSE item

update_agenda(items, updates) ==
    [i \in 1..Len(items) |-> MarkCovered(items[i], updates)]

\* The Router call returns with the agenda_status list updates: new alerts
\* are appended, the agenda is updated, then the time check runs
CoachTick(s, r, updates) ==
    LET out == call_llm_json(default_llm, r)
        n == IF Truthy(out.data) THEN out.data.alerts ELSE 0
        appended == IF n = 1
                    THEN Append(coach_alerts, Alert("uuid", session))
                    ELSE coach_alerts
    IN
    /\ coach_pc[s] = "call"
    /\ LlmAlerts(coach_alerts) + n <= MaxAlerts
    /\ IF IsFatal(out.error)
       THEN /\ coach_pc' = [coach_pc EXCEPT ![s] = "done"]
            /\ UNCHANGED <<coach_alerts, agenda>>
       ELSE /\ coach_pc' = [coach_pc EXCEPT ![s] = "pause"]
            /\ coach_alerts' = check_time_warnings(appended, session)
            /\ agenda' = IF Truthy(out.data)
                         THEN update_agenda(agenda, updates)
                         ELSE agenda
    /\ UNCHANGED <<appVars, session, rec_pc, trans_pc, sum_pc, stopVars,
                   fileVars, seenVars, live_transcript_text,
                   recording_start_time, now, configVars, extraVars, transVars,
                   insightVars, mixVars, expected_duration>>

\* the same, for a reply without agenda_status
CoachResult(s, r) == CoachTick(s, r, <<>>)

----------------------------------------------------------------------------
(* The dual-device mixer: record_dual_device of src/main_app.py.  A frame
   holds one sample per channel: one for the microphone, two for the
   stereo system stream. *)

\* frames one reader thread reads in one run
MaxFrames == 1
\* frames the mixing loop collects in one run
MaxMixed == 2

Int16Min == -32768
Int16Max == 32767

\* samples the devices deliver
SampleValues == {Int16Min, 0, Int16Max}
MicFrames == {<<x>> : x \in SampleValues}
SysFrames == {<<l, r>> : l, r \in SampleValues}

\* queue items: a frame of samples, or the None that ends a stream
Frame(d) == [end |-> FALSE, data |-> d]
EndMark == [end |-> TRUE, data |-> <<>>]
\* what the mixing loop uses when a queue stays empty for a second
MicSilence == Frame(<<0>>)
SysSilence == Frame(<<0, 0>>)

\* arithmetic of numpy int16 arrays wraps around
Wrap16(x) == ((x - Int16Min) % 65536) + Int16Min

\* (s_arr[0::2] + s_arr[1::2]) // 2, on int16
Downmix(l, r) == Wrap16(Wrap16(l + r) \div 2)

\* np.clip(mixed, -32768, 32767)
Clip(x) == IF x < Int16Min THEN Int16Min
           ELSE IF x > Int16Max THEN Int16Max ELSE x

\* np.clip(...).astype(np.int16) of one int32 sample
ToInt16(mixed) == Wrap16(Clip(mixed))

\* the sum written without np.clip and the cast
MixSampleUnclipped(x, l, r) == x + Downmix(l, r)

\* the output sample for microphone sample x and system samples l, r
MixSample(x, l, r) == ToInt16(x + Downmix(l, r))

\* one mixed frame
MixFrame(m, s) == <<MixSample(m[1], s[1], s[2])>>

\* the queues are made and the two reader threads are started
DualStart ==
    /\ mix_pc = "idle"
    /\ mic_queue' = <<>>
    /\ sys_queue' = <<>>
    /\ mic_reader' = "run"
    /\ sys_reader' = "run"
    /\ active' = 2
    /\ frames' = <<>>
    /\ mix_pc' = "loop"
    /\ UNCHANGED <<appVars, threadVars, fileVars, seenVars,
                   live_transcript_text, recording_start_time, now,
                   configVars, extraVars, transVars, insightVars, coachVars, mic_reads,
                   sys_reads>>

\* read_stream on the microphone: a frame is read and queued
MicRead(f) ==
    /\ mic_reader = "run"
    /\ mic_reads < MaxFrames
    /\ mic_queue' = Append(mic_queue, Frame(f))
    /\ mic_reads' = mic_reads + 1
    /\ UNCHANGED <<appVars, threadVars, fileVars, seenVars,
                   live_transcript_text, recording_start_time, now,
                   configVars, extraVars, transVars, insightVars, coachVars, sys_queue,
                   mic_reader, sys_reader, sys_reads, active, frames,
                   mix_pc>>

\* read_stream on the microphone ends (the flag was cleared or the read
\* raised): None is queued
MicEnd ==
    /\ mic_reader = "run"
    /\ mic_queue' = Append(mic_queue, EndMark)
    /\ mic_reader' = "done"
    /\ UNCHANGED <<appVars, threadVars, fileVars, seenVars,
                   live_transcript_text, recording_start_time, now,
                   configVars, extraVars, transVars, insightVars, coachVars, sys_queue,
                   sys_reader, mic_reads, sys_reads, active, frames, mix_pc>>

SysRead(f) ==
    /\ sys_reader = "run"
    /\ sys_reads < MaxFrames
    /\ sys_queue' = Append(sys_queue, Frame(f))
    /\ sys_reads' = sys_reads + 1
    /\ UNCHANGED <<appVars, threadVars, fileVars, seenVars,
                   live_transcript_text, recording_start_time, now,
                   configVars, extraVars, transVars, insightVars, coachVars, mic_queue,
                   mic_reader, sys_reader, mic_reads, active, frames,
                   mix_pc>>

SysEnd ==
    /\ sys_reader = "run"
    /\ sys_queue' = Append(sys_queue, EndMark)
    /\ sys_reader' = "done"
    /\ UNCHANGED <<appVars, threadVars, fileVars, seenVars,
                   live_transcript_text, recording_start_time, now,
                   configVars, extraVars, transVars, insightVars, coachVars, mic_queue,
                   mic_reader, mic_reads, sys_reads, active, frames, mix_pc>>

\* queue.get(timeout=1): the head of the queue, or the silence frame when
\* the queue is empty
Get(q, silence) == IF q = <<>> THEN silence ELSE Head(q)
Rest(q) == IF q = <<>> THEN q ELSE Tail(q)

\* One iteration of the mixing loop
MixTick ==
    LET m == Get(mic_queue, MicSilence)
        s == Get(sys_queue, SysSilence)
    IN
    /\ mix_pc = "loop"
    /\ active > 0
    /\ mic_queue' = Rest(mic_queue)
    /\ sys_queue' = Rest(sys_queue)
    /\ IF m.end \/ s.end
       THEN /\ active' = active - 1
            /\ UNCHANGED frames
       ELSE /\ Len(frames) < MaxMixed
            /\ frames' = Append(frames, MixFrame(m.data, s.data))
            /\ UNCHANGED active
    /\ UNCHANGED <<appVars, threadVars, fileVars, seenVars,
                   live_transcript_text, recording_start_time, now,
                   configVars, extraVars, transVars, insightVars, coachVars, mic_reader,
                   sys_reader, mic_reads, sys_reads, mix_pc>>

\* The loop has ended: the readers are joined and the frames are written
MixWrite ==
    /\ mix_pc = "loop"
    /\ active = 0
    /\ mic_reader = "done"
    /\ sys_reader = "done"
    /\ mix_pc' = "written"
    /\ UNCHANGED <<appVars, threadVars, fileVars, seenVars,
                   live_transcript_text, recording_start_time, now,
                   configVars, extraVars, transVars, insightVars, coachVars, mic_queue,
                   sys_queue, mic_reader, sys_reader, mic_reads, sys_reads,
                   active, frames>>

----------------------------------------------------------------------------
(* The session lifecycle *)

\* The state after __init__, whose detect_devices call saw the scan sc
InitApp(sc) ==
    /\ is_recording = FALSE
    /\ processing_audio = FALSE
    /\ model_loading = FALSE
    /\ whisper_model = FALSE
    /\ recording_mode = "microphone"
    /\ microphone_device = DetectMicrophone(sc, NotFound)
    /\ blackhole_device = DetectNamed(sc, "blackhole", NotFound)
    /\ hybrid_device = DetectNamed(sc, "hybrid", NotFound)
    /\ coach_enabled = FALSE
    /\ temp_audio_file = 0
    /\ part_file = 0
    /\ chat_history = <<>>
    /\ preload_pc = "pending"
    /\ session = 0
    /\ rec_pc = [s \in Sessions |-> "none"]
    /\ trans_pc = [s \in Sessions |-> "none"]
    /\ sum_pc = [s \in Sessions |-> "none"]
    /\ coach_pc = [s \in Sessions |-> "none"]
    /\ stop_pc = "none"
    /\ stop_threads = 0
    /\ final_transcript = ""
    /\ canon = [s \in Sessions |-> Absent]
    /\ partf = [s \in Sessions |-> Absent]
    /\ readf = [s \in Sessions |-> Absent]
    /\ status = ""
    /\ last_call = "none"
    /\ result_calls = 0
    /\ live_transcript_text = ""
    /\ recording_start_time = 0
    /\ now = 1

vars == <<appVars, threadVars, fileVars, seenVars, live_transcript_text,
          recording_start_time, now, otherVars>>

\* ---- Spec: any caller.  start_recording and stop_recording are called in
\* any order and at any moment; the preload timer has not fired.
Init ==
    /\ InitApp(FullScan)
    /\ InitLoops("ollama", TRUE, TRUE, TRUE, TRUE)

CaptureStep ==
    \E s \in Sessions :
        \/ \E opened \in BOOLEAN : RecStart(s, opened)
        \/ RecWrite(s)
        \/ RecWriteError(s)
        \/ RecLoopExit(s)
        \/ \E moved \in BOOLEAN : RecRename(s, moved)

\* the stop task, its summary request answered by one of replies
StopTask(replies) ==
    \/ AsyncStopJoin
    \/ \E renamed, loaded \in BOOLEAN : ProcessStart(renamed, loaded)
    \/ \E result \in {"segments", "silence", "raise"} :
           ProcessTranscribed(result)
    \/ \E r \in replies : ProcessSummarized(r)

\* the summary request returns a summary or raises
SessionReplies ==
    {r \in SummaryResponses :
        r.lib /\ r.key /\ r.health = "ok" /\ r.text = ""
        /\ r.kind \in {"json", "bad_envelope"}}

StopTaskStep == StopTask(SessionReplies)

Idle == ~is_recording /\ ~processing_audio

Next ==
    \/ (Idle /\ set_coach_enabled(TRUE))
    \/ start_recording(FullScan)
    \/ stop_recording
    \/ CaptureStep
    \/ StopTaskStep

Spec == Init /\ [][Next]_vars

\* ---- SpecUi: the caller is the record button of the GUI, which starts
\* from Idle (or is pressed twice) and stops a session that is capturing or
\* stopping.
NextUi ==
    \/ (Idle /\ set_coach_enabled(TRUE))
    \/ ((is_recording \/ ~processing_audio) /\ start_recording(FullScan))
    \/ ((is_recording \/ processing_audio) /\ stop_recording)
    \/ CaptureStep
    \/ StopTaskStep

SpecUi == Init /\ [][NextUi]_vars

\* ---- SpecStart: the start side alone, with the preload timer, the mode
\* setting and every device enumeration; stop_recording is never called.
InitStart ==
    /\ \E sc \in Scans : InitApp(sc)
    /\ InitLoops("ollama", TRUE, TRUE, TRUE, TRUE)

NextStart ==
    \/ PreloadBegin
    \/ \E loaded \in BOOLEAN : PreloadEnd(loaded)
    \/ \E m \in Modes : set_mode(m)
    \/ \E enabled \in BOOLEAN : set_coach_enabled(enabled)
    \/ \E sc \in Scans : start_recording(sc)
    \/ \E s \in Sessions :
           \/ \E opened \in BOOLEAN : RecStart(s, opened)
           \/ RecWrite(s)
           \/ RecWriteError(s)
           \/ \E moved \in BOOLEAN : RecRename(s, moved)

SpecStart == InitStart /\ [][NextStart]_vars

\* ---- SpecInsight: one session with its capture thread, transcription loop
\* and insight loop, under every provider setting.
InitInsight ==
    /\ InitApp(FullScan)
    /\ \E llm \in LlmSettings : InitLoops(llm, TRUE, TRUE, TRUE, TRUE)

TranscribeStep ==
    \E s \in Sessions :
        \/ TransTop(s)
        \/ \E repaired \in BOOLEAN : TransTick(s, repaired)
        \/ \E text \in Texts, raised \in BOOLEAN : TransResult(s, text, raised)

InsightStep ==
    \E s \in Sessions :
        \/ SumReset(s)
        \/ SumSleepEnd(s)
        \/ SumTop(s)
        \/ \E r \in Responses : SumResult(s, r)
        \/ SumPause(s)

NextInsight ==
    \/ PreloadBegin
    \/ \E loaded \in BOOLEAN : PreloadEnd(loaded)
    \/ (session = 0 /\ start_recording(FullScan))
    \/ (is_recording /\ stop_recording)
    \/ \E s \in Sessions :
           \/ RecStart(s, TRUE)
           \/ RecWrite(s)
           \/ RecLoopExit(s)
           \/ RecRename(s, TRUE)
    \/ TranscribeStep
    \/ InsightStep

SpecInsight == InitInsight /\ [][NextInsight]_vars

\* ---- SpecFinal: one session from start to the end of its stop task, with
\* the preload timer, its capture thread under every fault and its
\* transcription loop, under every provider setting, with and without a
\* registered result callback.
InitFinal ==
    /\ InitApp(FullScan)
    /\ \E llm \in LlmSettings, rcb \in BOOLEAN :
           InitLoops(llm, TRUE, TRUE, TRUE, rcb)

NextFinal ==
    \/ PreloadBegin
    \/ \E loaded \in BOOLEAN : PreloadEnd(loaded)
    \/ (session = 0 /\ start_recording(FullScan))
    \/ (is_recording /\ stop_recording)
    \/ CaptureStep
    \/ TranscribeStep
    \/ StopTask(SummaryResponses)

SpecFinal == InitFinal /\ [][NextFinal]_vars

\* ---- SpecFinalFair: the same, where the stop task is a running thread
\* each of whose calls (the joins with their timeouts, the model load, the
\* transcription, the summary request) returns.
SpecFinalFair == SpecFinal /\ WF_vars(StopTask(SummaryResponses))

\* ---- SpecCoach: sessions with the meeting coach.  The caller sets the
\* meeting context and enables the coach while no session runs.  The first
\* transcript of a session arrives before the coach's first sleep ends and
\* before the clock's next step; the capture thread and the transcription
\* loop are not followed further.
CoachStep ==
    \E s \in Sessions :
        \/ CoachSleepEnd(s)
        \/ CoachTop(s)
        \/ \E r \in CoachResponses : CoachResult(s, r)

Quiet == is_recording /\ TextLen(live_transcript_text) < MinTranscriptChars

NextCoach ==
    \/ PreloadBegin
    \/ PreloadEnd(TRUE)
    \/ (Idle /\ \E d \in Durations : set_meeting_context(<<>>, d))
    \/ (Idle /\ set_coach_enabled(TRUE))
    \/ (~Quiet /\ ~processing_audio /\ start_recording(FullScan))
    \/ (~Quiet /\ is_recording /\ stop_recording)
    \/ \E s \in Sessions :
           \/ (Quiet /\ RecStart(s, TRUE))
           \/ (Quiet /\ RecWrite(s))
           \/ (Quiet /\ TransTop(s))
           \/ (Quiet /\ TransTick(s, TRUE))
           \/ (Quiet /\ TransResult(s, "long", FALSE))
    \/ (~Quiet /\ CoachStep)
    \/ (~Quiet /\ AsyncStopJoin)
    \/ (~Quiet /\ ProcessStart(TRUE, TRUE))
    \/ (~Quiet /\ ClockAdvance)

SpecCoach == Init /\ [][NextCoach]_vars

\* ---- SpecConfig: auto_detect_llm under every default_llm setting and every
\* content of the keychain and of the config file's key section.
InitConfig ==
    /\ InitApp(FullScan)
    /\ \E llm \in LlmSettings \cup {"auto"},
          kc \in [KeyProviders -> KeychainValues],
          ak \in [KeyProviders -> ConfigValues] :
           InitLoopsWith(llm, TRUE, TRUE, TRUE, TRUE, kc, ak)

NextConfig == auto_detect_llm

SpecConfig == InitConfig /\ [][NextConfig]_vars

\* ---- SpecEngines: one session with the insight loop and the coach loop
\* side by side, under every provider setting and every reply.  As in
\* SpecCoach the first transcript arrives before the loops' first sleep ends.
InitEngines ==
    /\ InitApp(FullScan)
    /\ \E llm \in LlmSettings : InitLoops(llm, TRUE, TRUE, TRUE, TRUE)

\* the replies to the insight prompt: every way a request ends, with an
\* empty object or one full object as the parsed value
EngineReplies ==
    {r \in Responses :
        r.data \in {EmptyObject,
                    [meeting_type |-> "standup", action_items |-> Items,
                     decisions |-> Items]}}

EngineInsightStep ==
    \E s \in Sessions :
        \/ SumReset(s)
        \/ SumSleepEnd(s)
        \/ SumTop(s)
        \/ \E r \in EngineReplies : SumResult(s, r)
        \/ SumPause(s)

NextEngines ==
    \/ PreloadBegin
    \/ PreloadEnd(TRUE)
    \/ (session = 0 /\ ~coach_enabled /\ set_coach_enabled(TRUE))
    \/ (session = 0 /\ start_recording(FullScan))
    \/ (~Quiet /\ is_recording /\ stop_recording)
    \/ \E s \in Sessions :
           \/ (Quiet /\ RecStart(s, TRUE))
           \/ (Quiet /\ RecWrite(s))
           \/ (Quiet /\ TransTop(s))
           \/ (Quiet /\ TransTick(s, TRUE))
           \/ (Quiet /\ TransResult(s, "long", FALSE))
    \/ (~Quiet /\ EngineInsightStep)
    \/ (~Quiet /\ CoachStep)

SpecEngines == InitEngines /\ [][NextEngines]_vars

\* ---- SpecLive: one session with its capture thread and its transcription
\* loop, with and without ffmpeg, with and without a registered transcript
\* callback, and with every outcome of the repair and of the whisper call.
InitLive ==
    /\ InitApp(FullScan)
    /\ \E ffmpeg, tcb \in BOOLEAN : InitLoops("ollama", ffmpeg, tcb, TRUE, TRUE)

NextLive ==
    \/ PreloadBegin
    \/ \E loaded \in BOOLEAN : PreloadEnd(loaded)
    \/ (session = 0 /\ start_recording(FullScan))
    \/ (is_recording /\ stop_recording)
    \/ \E s \in Sessions :
           \/ RecStart(s, TRUE)
           \/ RecWrite(s)
           \/ RecLoopExit(s)
           \/ RecRename(s, TRUE)
    \/ TranscribeStep

SpecLive == InitLive /\ [][NextLive]_vars

\* ---- SpecSleep: one session under every provider setting, with the
\* sleeps of its three loops on the clock; stop_recording is called at any
\* second of the session.
InitSleep ==
    /\ InitApp(FullScan)
    /\ \E llm \in LlmSettings : InitLoops(llm, TRUE, TRUE, TRUE, TRUE)

NextSleep ==
    \/ (session = 0 /\ start_recording(FullScan))
    \/ NapBegin
    \/ \E l \in Loops :
           \/ \E long \in BOOLEAN : NapTop(l, long)
           \/ NapWake(l)
           \/ \E more \in BOOLEAN : NapRound(l, more)
    \/ SecondPasses
    \/ (is_recording /\ (\A l \in Loops : nap_pc[l] # "none")
        /\ stop_recording)

SpecSleep == InitSleep /\ [][NextSleep]_vars

\* ---- SpecLock: the coach loop of one session and set_meeting_context
\* calls made at any moment, with _state_lock: the tick of the coach loop
\* starts by taking the lock for its snapshot.
NextLock ==
    \/ (session = 0 /\ ~coach_enabled /\ set_coach_enabled(TRUE))
    \/ (session = 0 /\ start_recording(FullScan))
    \/ (is_recording /\ stop_recording)
    \/ CtxEnter
    \/ \E fetch \in BOOLEAN : CtxFeed(fetch)
    \/ CtxFetched
    \/ \E d \in Durations : CtxStore(<<>>, d)
    \/ \E s \in Sessions :
           \/ CoachSleepEnd(s)
           \/ (lock_owner = "none" /\ CoachTop(s))
    \/ ClockAdvance

SpecLock == Init /\ [][NextLock]_vars

\* ---- SpecAgenda: one session of the coach with an agenda of two items,
\* set while no session runs; every reply carries any agenda_status list of
\* up to two entries.
AgendaItems == <<"budget", "hiring">>
AgendaStatuses == [text : {"budget", "hiring", "other"}, covered : BOOLEAN]
AgendaUpdates ==
    {<<>>} \cup {<<u>> : u \in AgendaStatuses}
           \cup {<<u, v>> : u, v \in AgendaStatuses}

NextAgenda ==
    \/ PreloadBegin
    \/ PreloadEnd(TRUE)
    \/ (session = 0 /\ \E d \in Durations :
                           set_meeting_context(AgendaItems, d))
    \/ (session = 0 /\ ~coach_enabled /\ set_coach_enabled(TRUE))
    \/ (session = 0 /\ start_recording(FullScan))
    \/ (~Quiet /\ is_recording /\ stop_recording)
    \/ \E s \in Sessions :
           \/ (Quiet /\ RecStart(s, TRUE))
           \/ (Quiet /\ RecWrite(s))
           \/ (Quiet /\ TransTop(s))
           \/ (Quiet /\ TransTick(s, TRUE))
           \/ (Quiet /\ TransResult(s, "long", FALSE))
           \/ (~Quiet /\ CoachSleepEnd(s))
           \/ (~Quiet /\ CoachTop(s))
           \/ (~Quiet /\ \E r \in CoachResponses, u \in AgendaUpdates :
                              CoachTick(s, r, u))
    \/ (~Quiet /\ ClockAdvance)

SpecAgenda == Init /\ [][NextAgenda]_vars

\* ---- SpecRace: start_recording called from Idle by MaxCallers threads at
\* once, each call once, with the preload timer and the capture threads the
\* calls start; stop_recording is never called.
InitRace ==
    /\ InitApp(FullScan)
    /\ InitLoops("ollama", TRUE, TRUE, TRUE, TRUE)

NextRace ==
    \/ PreloadBegin
    \/ \E loaded \in BOOLEAN : PreloadEnd(loaded)
    \/ \E c \in Callers :
           \/ StartCallEnter(c)
           \/ StartCallProceed(c, FullScan)
    \/ \E s \in Sessions :
           \/ \E opened \in BOOLEAN : RecStart(s, opened)
           \/ RecWrite(s)
           \/ RecWriteError(s)
           \/ \E moved \in BOOLEAN : RecRename(s, moved)

SpecRace == InitRace /\ [][NextRace]_vars

\* ---- SpecMix: one run of the dual-device recorder, for every frame
\* the two streams can deliver.
NextMix ==
    \/ DualStart
    \/ \E f \in MicFrames : MicRead(f)
    \/ MicEnd
    \/ \E f \in SysFrames : SysRead(f)
    \/ SysEnd
    \/ MixTick
    \/ MixWrite

SpecMix == Init /\ [][NextMix]_vars

\* ---- SpecMixFair: the same, where the mixing loop, a running thread whose
\* queue reads time out after a second, goes on taking its iterations.
SpecMixFair == SpecMix /\ WF_vars(MixTick)

----------------------------------------------------------------------------
(* Properties *)

NoCaptureFailed == \A s \in Sessions : rec_pc[s] # "failed"
Started(pc) == {s \in Sessions : pc[s] # "none"}
Running(pc) == {s \in Sessions : pc[s] \notin {"none", "done", "failed"}}
sessionState == <<appVars, threadVars, fileVars, status, result_calls,
                  live_transcript_text, recording_start_time, otherVars>>

C2_OneStopTask ==
    /\ [](stop_threads <= 1 /\ (stop_pc # "none" <=> stop_threads = 1))
    /\ [][(last_call' = "stop_ignored" /\ last_call # "stop_ignored")
              => UNCHANGED sessionState]_vars

\* stop was called a second time while the first stop task was finalizing
C2_Witness ==
    /\ last_call = "stop_ignored"
    /\ stop_threads = 1
    /\ stop_pc = "transcribe"
    /\ session = 1

\* C3: a stop_recording call made while no session is capturing or being
\* stopped starts no stop task, publishes no status and leaves the recording
\* flag and the processing guard as they were.
C3_StopWhenIdle ==
    [][(Idle /\ stop_recording)
          => UNCHANGED <<stop_pc, stop_threads, status, is_recording,
                         processing_audio>>]_vars

\* C4: a start_recording call made while the stop task of the previous
\* session is in progress starts no thread and leaves the audio paths alone.
C4_StartWhileStopping ==
    [][(/\ session >= 1
        /\ ~is_recording
        /\ processing_audio
        /\ start_recording(FullScan))
          => UNCHANGED <<session, rec_pc, loopPcs, temp_audio_file,
                         part_file>>]_vars

\* C5: the canonical audio file of every session is either absent or a
\* closed wave file promoted from the .part file.
C5_AtomicPublish ==
    \A s \in Sessions : canon[s].st \in {"absent", "closed"}

\* C6: a successful insight tick leaves action_items and decisions
\* supersets of what they were before the tick.
C6_MergeMonotonic ==
    [][(\E s \in Sessions : summary_count'[s] = summary_count[s] + 1)
          => /\ live_insights.action_items \subseteq
                    live_insights'.action_items
             /\ live_insights.decisions \subseteq live_insights'.decisions
      ]_vars

\* the time-warning alerts for threshold pct made during session s
TimeAlerts(pct, s) ==
    {i \in 1..Len(coach_alerts) :
        coach_alerts[i] = Alert(AlertKey(pct), s)}

\* C7: when a coach tick of the current session, which has an expected
\* duration, has run its time check, the alert list holds exactly one time
\* warning made in this session for every threshold the elapsed time has
\* crossed.
C7_OncePerSession ==
    [][\A s \in Sessions :
          (/\ s = session
           /\ coach_pc[s] = "call"
           /\ coach_pc'[s] = "pause"
           /\ expected_duration # 0)
          => \A pct \in {75, 90, 100} :
                 Crossed(pct)' => Cardinality(TimeAlerts(pct, s))' = 1]_vars

\* C8: every sample of every frame the mixing loop collects for writing
\* lies in the signed 16-bit range.
C8_MixInRange ==
    \A i \in 1..Len(frames) :
        \A j \in 1..Len(frames[i]) :
            frames[i][j] \in Int16Min..Int16Max

\* a frame mixed from inputs at maximum amplitude was written
C8_Witness ==
    /\ mix_pc = "written"
    /\ \E i \in 1..Len(frames) :
           frames[i] = MixFrame(<<Int16Max>>, <<Int16Max, Int16Max>>)

NotFoundStatuses == {"BlackHole Not Found", "BBrew Hybrid Not Found"}

\* C9: a start_recording call that passes the busy checks and finds no
\* device registered for the mode publishes a device-not-found status,
\* leaves the recording flag false and starts no thread.
C9_FailFast ==
    [][\A sc \in Scans :
          (/\ ~is_recording
           /\ ~model_loading
           /\ start_recording(sc)
           /\ DeviceFor(recording_mode)' = NotFound)
          => /\ status' \in NotFoundStatuses
             /\ ~is_recording'
             /\ UNCHANGED <<session, rec_pc, loopPcs, fileVars>>]_vars

NoKeyErrors == {"gemini_no_key", "openai_no_key", "anthropic_no_key"}

\* C10: when the first Router call of the insight loop of a session returns
\* a credential-missing error, the loop has ended with that one call made,
\* and the step that ends it leaves the recording flag, the capture thread,
\* the transcription loop, the audio files and the transcript as they were.
C10_NoKeyEndsInsightLoop ==
    /\ [](\A s \in Sessions :
             first_error[s] \in NoKeyErrors
                 => sum_pc[s] = "done" /\ insight_calls[s] = 1)
    /\ [][\A s \in Sessions :
             (first_error[s] = "pending" /\ first_error'[s] \in NoKeyErrors)
                 => UNCHANGED <<is_recording, rec_pc, trans_pc, fileVars,
                                live_transcript_text, transVars>>]_vars

\* the insight loop ended on a missing credential while the capture thread
\* writes and the transcription loop is in a tick
C10_Witness ==
    \E s \in Sessions :
        /\ first_error[s] \in NoKeyErrors
        /\ sum_pc[s] = "done"
        /\ is_recording
        /\ rec_pc[s] = "write"
        /\ trans_pc[s] = "call"

\* C11: under every selectable provider, when the summary request of the
\* stop task gets a reply whose text is no JSON, the record prepended to the
\* history carries a summary built from that text.
C11_SalvagedFromRawText ==
    [][\A r \in SummaryResponses :
           (/\ default_llm \in Providers
            /\ Replied(default_llm, r)
            /\ r.kind = "bad_json"
            /\ r.text # ""
            /\ ProcessSummarized(r))
           => /\ Len(chat_history') = Len(chat_history) + 1
              /\ chat_history'[1].executive_summary = SalvagePrefix(r.text)]_vars

\* C12: once stop_recording has started a stop task, the session eventually
\* is Idle again: the processing guard is cleared and no session is
\* capturing, whether process_audio succeeds, returns early or raises.
C12_StopTaskEnds == processing_audio ~> (Idle /\ stop_pc = "none")

\* a stop task whose summary request raised has ended and left the app Idle
C12_Witness ==
    /\ session = 1
    /\ status = "Processing error: summary"
    /\ Idle
    /\ stop_pc = "none"

\* C13: when process_audio returns, on the success path, on an exception
\* or on an early return, neither the canonical audio file nor the .part
\* file nor the .read.wav snapshot of the session exists.
C13_NoFilesLeft ==
    [][(stop_pc # "none" /\ stop_pc' = "none")
       => \A s \in {session} \cap Sessions :
              /\ ~Exists(canon'[s])
              /\ ~Exists(partf'[s])
              /\ ~Exists(readf'[s])]_vars

\* C14 as stated: when process_audio finds the canonical audio file present
\* but shorter than 4096 bytes, it publishes the audio-capture failure,
\* requests no summary, writes no history record and calls no result
\* callback.
C14_SmallFileReported ==
    [][(/\ stop_pc = "process"
        /\ stop_pc' # "process"
        /\ temp_audio_file # 0
        /\ Exists(canon[temp_audio_file])
        /\ FileSize(canon[temp_audio_file]) < MinFinalBytes)
       => /\ status' = "Processing error: File too small"
          /\ stop_pc' = "none"
          /\ chat_history' = chat_history
          /\ result_calls' = result_calls]_vars

\* C14, amended: the same, provided the speech model is loaded or loads;
\* when it fails to load, the status is that of the load failure.
C14_SmallFileFails ==
    [][(/\ stop_pc = "process"
        /\ stop_pc' # "process"
        /\ temp_audio_file # 0
        /\ Exists(canon[temp_audio_file])
        /\ FileSize(canon[temp_audio_file]) < MinFinalBytes)
       => /\ whisper_model' =>
                 status' = "Processing error: File too small"
          /\ ~whisper_model' => status' = "Processing error: model"
          /\ stop_pc' = "none"
          /\ chat_history' = chat_history
          /\ result_calls' = result_calls]_vars

\* a stopped session whose file was too small: the failure is published and
\* nothing was summarized, stored or delivered
C14_Witness ==
    /\ session = 1
    /\ status = "Processing error: File too small"
    /\ stop_pc = "none"
    /\ ~processing_audio
    /\ chat_history = <<>>
    /\ result_calls = 0

\* C15: the history never holds more records than a fixed retention count.
\* Stated for every retention count below the number of sessions of a run:
\* the history stays shorter than the number of sessions that can finish.
C15_HistoryBounded == Len(chat_history) <= MaxSessions - 1

\* C16: every call of _call_llm_json ends with no error, or with one tag of
\* the closed set: library unavailable, credential missing, provider
\* unreachable, malformed JSON, request timeout, provider unsupported.
\* Stated on the error of the first call of each session's insight loop.
C16_ClosedFailureSet ==
    LET tags == {Unavailable[p] : p \in DOMAIN Unavailable}
                \cup {NoKey[p] : p \in DOMAIN NoKey}
                \cup {"ollama_not_running", "json_parse", "request_timeout",
                      "unsupported_provider_llamafile"}
    IN  \A s \in Sessions :
            first_error[s] \in {"pending", NoError} \cup tags

\* C17: a start_recording call made while no session is capturing and the
\* speech model is loading publishes the busy status and changes nothing
\* else: the recording flag stays false, no thread starts, no file is made.
\* (The call returns before the device scan, so one scan stands for all.)
C17_BusyWhileLoading ==
    [][(~is_recording /\ model_loading /\ start_recording(FullScan))
       => /\ status' = "AI Loading - Please Wait"
          /\ ~is_recording'
          /\ UNCHANGED <<appVars, threadVars, fileVars, result_calls,
                         live_transcript_text, recording_start_time,
                         otherVars>>]_vars

\* the busy status was published while the model loads and no session exists
C17_Witness ==
    /\ model_loading
    /\ status = "AI Loading - Please Wait"
    /\ session = 0
    /\ ~is_recording
    /\ \A s \in Sessions : rec_pc[s] = "none" /\ ~Exists(canon[s])

\* C18: when the capture thread of the current session ends after a device
\* or write error, the recording flag is false and an error status is
\* published.  Where stop_recording is never called, a capture thread ends
\* only after such an error: the stream failed to open (the thread ends as
\* failed) or writeframes raised (the thread ends after the rename).
C18_CaptureErrorStops ==
    [][\A s \in Sessions :
           (/\ s = session
            /\ rec_pc[s] \notin {"done", "failed"}
            /\ rec_pc'[s] \in {"done", "failed"})
           => /\ ~is_recording'
              /\ status' = "Error: Recording Failed"]_vars

\* C19: in each run of process_audio the registered result callback is
\* called exactly once when the run succeeds (status Ready), in the step
\* that has prepended the record to the history, and is not called, and no
\* record is stored, when the run ends any other way: no or too small an
\* audio file, a model, transcription or summary exception.
C19_ResultOnce ==
    [][/\ (result_calls' # result_calls)
          => /\ result_calls' = result_calls + 1
             /\ stop_pc = "summarize"
             /\ stop_pc' = "none"
             /\ status' = "Ready"
             /\ Len(chat_history') = Len(chat_history) + 1
       /\ (stop_pc # "none" /\ stop_pc' = "none" /\ status' = "Ready"
           /\ result_callback)
          => result_calls' = result_calls + 1
       /\ (stop_pc # "none" /\ stop_pc' = "none" /\ status' # "Ready")
          => /\ result_calls' = result_calls
             /\ chat_history' = chat_history]_vars

\* a finished run that stored one record and called the callback once
C19_Witness ==
    /\ result_callback
    /\ stop_pc = "none"
    /\ status = "Ready"
    /\ result_calls = 1
    /\ Len(chat_history) = 1

\* C20: whatever the provider setting and the reply, the summary that
\* generate_summary returns carries the transcript it was given, and the
\* record that process_audio then stores and hands to the result callback
\* has that transcript, which is not empty: the formatted segments or the
\* no-speech placeholder.
C20_TranscriptCarried ==
    [][\A r \in SummaryResponses :
           (ProcessSummarized(r) /\ ~SummaryRaises(default_llm, r))
           => /\ generate_summary(default_llm, final_transcript,
                                  r).transcript = final_transcript
              /\ chat_history'[1].transcript = final_transcript
              /\ final_transcript \in {"[00:00-00:05] Speaker: text",
                                       "(No speech detected in recording)"}]_vars

\* an error summary stored for a recording without speech carries the
\* placeholder
C20_Witness ==
    /\ Len(chat_history) = 1
    /\ chat_history[1].title = "Error Processing"
    /\ chat_history[1].transcript = "(No speech detected in recording)"
    /\ result_calls = 1

\* C21: when Ollama's generate call returns text that is no JSON, the
\* summary that _summarize_with_ollama returns, and process_audio stores, is
\* the error summary: title Error Processing and an executive summary that
\* contains "invalid JSON".
C21_OllamaInvalidJson ==
    [][\A r \in SummaryResponses :
           (/\ default_llm = "ollama"
            /\ r.health = "ok"
            /\ r.kind = "bad_json"
            /\ ProcessSummarized(r))
           => LET out == summarize_with_ollama(final_transcript, r)
              IN  /\ chat_history'[1] = out
                  /\ out.title = "Error Processing"
                  /\ out.executive_summary \in
                         {"Ollama returned invalid JSON",
                          "OpenAI returned invalid JSON",
                          "Anthropic returned invalid JSON"}]_vars

\* C22: with default_llm = auto, auto_detect_llm sets it to the first of
\* openai, gemini, anthropic for which _get_api_key returns a non-empty key,
\* and to ollama when none has one; any other setting is left as it is.
C22_AutoDetect ==
    [][auto_detect_llm
       => default_llm' =
              IF default_llm # "auto" THEN default_llm
              ELSE IF get_api_key("openai") # "" THEN "openai"
              ELSE IF get_api_key("gemini") # "" THEN "gemini"
              ELSE IF get_api_key("anthropic") # "" THEN "anthropic"
              ELSE "ollama"]_vars

\* auto_detect_llm has run and chose gemini: openai's stored keys are blank
\* (whitespace in the keychain, quotes in the file), gemini's is in the file
C22_Witness ==
    /\ last_call = "auto_detect_llm"
    /\ default_llm = "gemini"
    /\ keychain["openai"] = " "
    /\ api_keys["openai"] = "''"
    /\ keychain["gemini"] = NoEntry
    /\ api_keys["gemini"] = " sk-2 "

\* C23: once the stop task of a session has finished and the app is Idle
\* again (here: the session's record is in the history), the return of a
\* transcription call that a loop of that session was in changes neither
\* the live transcript nor what the transcript callback has shown.
C23_LateResultDiscarded ==
    [][\A s \in Sessions :
           (/\ Idle
            /\ stop_pc = "none"
            /\ Len(chat_history) >= 1
            /\ trans_pc[s] = "call"
            /\ trans_pc'[s] # "call")
           => UNCHANGED <<live_transcript_text, transcript_seen>>]_vars

\* C24: a capture thread or loop started for one session never goes on as
\* part of a later session: once a later session has started, it writes no
\* further block, and its next loop test ends it.
C24_OneLoopEach ==
    [][\A s \in Sessions :
           s < session
           => /\ ~RecWrite(s)
              /\ trans_pc[s] = "top" => trans_pc'[s] \in {"top", "done"}
              /\ sum_pc[s] = "top" => sum_pc'[s] \in {"top", "done"}
              /\ coach_pc[s] = "top" => coach_pc'[s] \in {"top", "done"}]_vars

\* C25: of the start_recording calls made at the same time from Idle, one
\* starts the session's threads and the others start none: at most one set
\* of threads has been started
C25_OneCallStarts ==
    Cardinality({s \in Sessions : rec_pc[s] # "none"}) <= 1

ExactMix(x, l, r) == Clip(x + ((l + r) \div 2))

\* C27: every sample the mixing loop appends equals
\* clamp(m + floor((L + R) / 2), -32768, 32767) over the integers, for the
\* microphone sample m and the system samples L, R it was mixed from
C27_MixIsExact ==
    [][Len(frames') = Len(frames) + 1
       => LET m == Get(mic_queue, MicSilence).data
              s == Get(sys_queue, SysSilence).data
          IN  frames'[Len(frames')] = <<ExactMix(m[1], s[1], s[2])>>]_vars

\* C28: a coach tick taken while recording ends with the alert of every
\* time threshold the elapsed time has reached, whether the tick found the
\* transcript too short, called the Router with success or saw the call
\* fail
C28_TimeCheckEveryTick ==
    [][\A s \in Sessions :
           (/\ is_recording
            /\ expected_duration > 0
            /\ recording_start_time # 0
            /\ coach_pc[s] \in {"top", "call"}
            /\ coach_pc'[s] \in {"wait", "pause", "done"})
           => \A i \in 1..Len(Thresholds) :
                  Crossed(Thresholds[i])
                  => AlreadyFired(coach_alerts', Thresholds[i])]_vars

\* the error tags of the fatal classes
FatalClass == FatalErrors \cup {"unsupported_provider_llamafile"}

C30_SlowCallIsLast ==
    [][\A s \in Sessions :
           default_llm = "ollama"
           => /\ sum_pc[s] = "call"
                  => \A r \in EngineReplies :
                         (r.slow /\ SumResult(s, r))
                         => sum_pc'[s] = "done" \/ ollama_disabled'[s]
              /\ ollama_disabled[s]
                  => insight_calls'[s] = insight_calls[s]]_vars

\* C31: when the whisper call of a transcription tick returns non-empty
\* text, live_transcript_text is that text after the tick, and the text is
\* passed to the transcript callback when one is registered
C31_TextRepublished ==
    [][\A s \in Sessions :
           trans_pc[s] = "call"
           => \A text \in Texts \ {""} :
                  TransResult(s, text, FALSE)
                  => /\ live_transcript_text' = text
                     /\ transcript_callback => transcript_seen' = text]_vars

\* C32: a transcription tick taken while the session records, however its
\* repair or its whisper call ends, leaves the loop running: the loop
\* ends at its loop test only
C32_TickNeverEndsLoop ==
    [][\A s \in Sessions :
           (is_recording /\ trans_pc[s] \in {"sleep", "call"})
           => trans_pc'[s] # "done"]_vars

\* C33: a loop that is asleep when stop clears the recording flag has
\* ended before the join timeout of the stop task has passed, wherever in
\* its cycle the loop was
C33_SleepersExitInTime ==
    (~is_recording /\ since_stop > JoinTimeout)
    => \A l \in Loops : nap_pc[l] \in {"none", "done"}

\* C34: _state_lock is never held while the holder is inside a blocking
\* external call
C34_NoCallUnderLock ==
    lock_owner = "set_meeting_context" => ctx_pc # "fetch"

\* the entries of an agenda_status list that can cover an item
Covering(items, u) ==
    {k \in 1..Len(u) :
        u[k].covered /\ \E i \in 1..Len(items) : items[i].text = u[k].text}

\* C35: in every step of a session each agenda item keeps its text; a
\* covered item stays as it is, flag and time; an item that becomes covered
\* gets the elapsed time of that step; and a tick whose agenda_status
\* entries match no item or are not covered leaves the agenda as it was
C35_AgendaMonotone ==
    /\ [][session # 0
          => /\ Len(agenda') = Len(agenda)
             /\ \A i \in 1..Len(agenda) :
                    /\ agenda'[i].text = agenda[i].text
                    /\ agenda[i].covered => agenda'[i] = agenda[i]
                    /\ ~agenda[i].covered
                           => IF agenda'[i].covered
                              THEN agenda'[i].time_mentioned = Elapsed
                              ELSE agenda'[i] = agenda[i]]_vars
    /\ [](\A u \in AgendaUpdates :
              Covering(agenda, u) = {} => update_agenda(agenda, u) = agenda)

\* one item was covered at an earlier minute of the session and the other
\* is still open after a later tick
C35_Witness ==
    /\ is_recording
    /\ Len(agenda) = 2
    /\ agenda[1].covered
    /\ agenda[1].time_mentioned < Elapsed
    /\ ~agenda[2].covered
    /\ \E s \in Sessions : coach_pc[s] = "pause"

\* list a is a prefix of list b
IsPrefix(a, b) == Len(a) <= Len(b) /\ \A i \in 1..Len(a) : b[i] = a[i]

\* C36: in every step taken while a session records or is being
\* finalized, the alert list before the step is a prefix of the list after
\* it: alerts are appended, none is changed or removed
C36_AlertsAppendOnly ==
    [][~Idle => IsPrefix(coach_alerts, coach_alerts')]_vars

\* a session records with an alert of the Router and a time warning in
\* the list
C36_Witness ==
    /\ is_recording
    /\ \E i, j \in 1..Len(coach_alerts) :
           /\ i < j
           /\ coach_alerts[i].id = "uuid"
           /\ coach_alerts[j].id = "time_75"

\* the list fields of the insights
ListFields == {"action_items", "decisions"}

\* C37: on the list fields, storing a result twice leaves what storing it
\* once leaves, and storing result a then result b leaves what storing b
\* then a leaves, from every state of the insights a session reaches
C37_MergeAlgebra ==
    \A a, b \in {d \in JsonObjects : Truthy(d)} :
        LET once == MergeInsights(live_insights, a)
            twice == MergeInsights(once, a)
            ab == MergeInsights(once, b)
            ba == MergeInsights(MergeInsights(live_insights, b), a)
        IN  \A k \in ListFields : twice[k] = once[k] /\ ab[k] = ba[k]

\* C38: an insight tick whose Router call returned data fires the
\* registered insights callback with a payload equal to the insights as
\* stored after the tick; a tick whose call failed or returned no data
\* fires no callback
C38_PayloadIsSnapshot ==
    [][\A s \in Sessions :
           (sum_pc[s] = "call" /\ summary_callback)
           => \A r \in Responses :
                  SumResult(s, r)
                  => LET out == call_llm_json(default_llm, r) IN
                     IF Truthy(out.data)
                     THEN /\ summary_seen'
                          /\ summary_payload(out.data) = live_insights'
                     ELSE summary_seen' = summary_seen]_vars

\* C39: when process_audio starts while the provisional file exists and the
\* canonical path holds no completed wave file, it either reports that the
\* late promotion failed, or goes on with the provisional file's audio at
\* the canonical path (ending early only for the model load or for audio
\* that is itself too small)
C39_LatePromotion ==
    [][(/\ stop_pc = "process"
        /\ temp_audio_file # 0
        /\ part_file # 0
        /\ Exists(partf[part_file])
        /\ canon[temp_audio_file].st # "closed")
       => \A renamed, loaded \in BOOLEAN :
              ProcessStart(renamed, loaded)
              => \/ status' = "Error: Audio file not ready"
                 \/ status' = "Processing error: model"
                 \/ /\ status' = "Processing error: File too small"
                    /\ TooSmall(partf[part_file])
                 \/ /\ status' = "Finalizing Transcript..."
                    /\ canon'[temp_audio_file] = partf[part_file]]_vars

\* the descriptors a scan alone would give: a role's device when the scan
\* succeeded and listed it, not found otherwise
FromScan(sc, name) == IF sc.ok /\ name \in sc.devs THEN name ELSE NotFound

\* C40: after the detect_devices of a start_recording call, each role's
\* descriptor is a device of that scan, or not found when the scan failed
\* or listed no such device: the registry depends on the latest scan only
C40_RegistryFromLatestScan ==
    [][\A sc \in Scans :
           (~is_recording /\ ~model_loading /\ start_recording(sc))
           => /\ blackhole_device' = FromScan(sc, "blackhole")
              /\ hybrid_device' = FromScan(sc, "hybrid")
              /\ IF sc.ok /\ sc.devs # {}
                 THEN microphone_device' \in sc.devs
                 ELSE microphone_device' = NotFound]_vars

====
